---- MODULE Spec2Model ----
(***************************************************************************)
(* Resource lifecycle handlers of the provider: the App Mesh virtual node  *)
(* (internal/service/appmesh/virtual_node.go) and the Transfer Access      *)
(* (internal/service/transfer/access.go).                                  *)
(*                                                                         *)
(* One behaviour follows one resource instance of one kind.  Every handler *)
(* (Create, Read, Update, Delete, Import) is one action; the answers of    *)
(* the remote API to the calls the handler makes are inputs of the action. *)
(* The calls a handler issued, in order, and its result are kept in `last` *)
(* until the next handler runs.                                            *)
(*                                                                         *)
(* Further specifications over the same handlers and over the other parts  *)
(* of the provider: SpecPair (two instances side by side), SpecKeyPair     *)
(* (the Lightsail key pair of the acceptance tests) and SpecPages (the WAF *)
(* list-pages helpers of internal/service/waf/list_pages_gen.go).          *)
(***************************************************************************)
EXTENDS Integers, Sequences, FiniteSets, TLC

VARIABLES kind, d, remote, last, runs

\* Two resource instances handled side by side (specification SpecPair):
\* the resource data of each, the objects the remote service holds, the
\* context every handler is given (meta), and the record of the last run.
VARIABLES insts, store, meta, ran

PairVars == <<insts, store, meta, ran>>

\* A Lightsail key pair (specification SpecKeyPair): its resource data,
\* the key pairs the remote service holds, and the record of the last run.
VARIABLES kp, kpRemote, kpLast

KeyPairVars == <<kp, kpRemote, kpLast>>

\* A WAF list-pages helper (specification SpecPages): the input struct of
\* the caller, the output of the last list call, where the helper stands,
\* the list calls and callback invocations so far, and the listing the
\* remote service holds.
VARIABLES pgInput, pgOutput, pgPc, pgLog, pgRemote

PageVars == <<pgInput, pgOutput, pgPc, pgLog, pgRemote>>

\* What a specification leaves alone when it follows something else.
Aside == <<PairVars, KeyPairVars, PageVars>>

vars == <<kind, d, remote, last, runs, Aside>>

----------------------------------------------------------------------------
(* Bounds of the model.                                                    *)

\* Longest import reference handed to Import, in characters.
MaxIdLen == 3
\* Most describe calls the not-found polling loop fits into the propagation window.
MaxPolls == 2
\* Most handler runs the host makes on the resource in one behaviour.
MaxRuns == 3
\* Most handler runs the host makes on two resources side by side.
PairMaxRuns == 3
\* Most handler runs the host makes on a key pair.
KeyPairMaxRuns == 3
\* Most pages a remote listing has.
MaxPages == 3

----------------------------------------------------------------------------
(* Strings are sequences of one-character strings, so that splitting and   *)
(* joining on the separator are computed, not assumed.                     *)

Chars == {"a", "b", "/"}

RECURSIVE StrUpTo(_)
StrUpTo(n) ==
    IF n = 0 THEN {<<>>}
    ELSE LET S == StrUpTo(n - 1)
         IN  S \cup {Append(s, c) : s \in {t \in S : Len(t) = n - 1}, c \in Chars}

\* strings.Split(s, "/"): the pieces between separators; n separators give n+1 pieces.
RECURSIVE SplitFrom(_, _, _)
SplitFrom(s, i, cur) ==
    IF i > Len(s) THEN <<cur>>
    ELSE IF s[i] = "/" THEN <<cur>> \o SplitFrom(s, i + 1, <<>>)
    ELSE SplitFrom(s, i + 1, Append(cur, s[i]))

Split(s) == SplitFrom(s, 1, <<>>)

\* strings.Join(parts, "/").
RECURSIVE Join(_)
Join(parts) ==
    IF Len(parts) = 0 THEN <<>>
    ELSE IF Len(parts) = 1 THEN parts[1]
    ELSE parts[1] \o <<"/">> \o Join(Tail(parts))

----------------------------------------------------------------------------
(* Remote calls.  A call record keeps the API operation, the natural key   *)
(* and mesh owner it was addressed with, the populated request fields      *)
(* (field name -> value), the answer and, for a found object, the object.  *)

Call(api, key, owner, fields, ans, obj) ==
    [api |-> api, key |-> key, owner |-> owner, fields |-> fields,
     ans |-> ans, obj |-> obj]

NoFields == <<>>
NoObj == <<>>

\* The calls of a log made to one API operation.
CallsTo(calls, api) == {i \in 1..Len(calls) : calls[i].api = api}

\* What a handler returns: the resource data, the calls it issued, the state of the
\* remote system as it leaves it, the error diagnostic ("none": no error) and
\* how its polling loop ended ("none": it has none) and whether one more
\* describe call was issued after the loop.
Result(rd, rem, calls, err, lp) ==
    [d |-> rd, rem |-> rem, calls |-> calls, err |-> err,
     loop |-> lp.how, again |-> lp.again]

NoLoop == [how |-> "none", again |-> FALSE]

----------------------------------------------------------------------------
(* App Mesh virtual node.                                                  *)

VNAttrs == {"name", "mesh_name", "mesh_owner", "spec", "tags_all"}

\* Schema: the attributes declared ForceNew.
VNForceNew == {"name", "mesh_name", "mesh_owner"}

VNStatuses == {"ACTIVE", "INACTIVE", "DELETED"}
VirtualNodeStatusCodeDeleted == "DELETED"

\* The account that owns a mesh created without mesh_owner.
DefaultOwner == "o"

VNBase ==
    [name |-> <<"b">>, mesh_name |-> <<"a">>, mesh_owner |-> "", spec |-> "s1",
     tags_all |-> "t1"]

\* The desired configurations: the base one, and those that depart from it
\* in one attribute.
VNConfigs ==
    {VNBase} \cup
    {[VNBase EXCEPT ![v[1]] = v[2]] :
        v \in {<<"name", <<"a">> >>, <<"mesh_name", <<"b">> >>,
               <<"mesh_owner", DefaultOwner>>, <<"spec", "s2">>, <<"tags_all", "t2">>}}

\* Nothing tracked: the resource data before Create or Import.
VNEmpty ==
    [id |-> <<>>, name |-> <<>>, mesh_name |-> <<>>, mesh_owner |-> "", spec |-> "",
     arn |-> <<>>, tags_all |-> ""]

\* The resource data Create and Update start from: the desired configuration
\* over what is tracked.
VNPlanned(rd, c) ==
    [rd EXCEPT !.name = c.name, !.mesh_name = c.mesh_name,
               !.mesh_owner = IF c.mesh_owner = "" THEN rd.mesh_owner ELSE c.mesh_owner,
               !.spec = c.spec, !.tags_all = c.tags_all]

\* The wire form of the spec block and its inverse.
expandVirtualNodeSpec(v) == <<"wire", v>>
flattenVirtualNodeSpec(w) == w[2]

Uid == <<"u">>
Arn(mesh, name) == <<"arn">> \o mesh \o <<"/">> \o name

\* The remote object a successful CreateVirtualNode call leaves behind.
VNStored(req) ==
    [mesh |-> req.key[1], name |-> req.key[2],
     owner |-> IF req.owner = "" THEN DefaultOwner ELSE req.owner,
     spec |-> req.fields.spec, tags |-> req.fields.tags,
     uid |-> Uid, arn |-> Arn(req.key[1], req.key[2])]

\* DescribeVirtualNode's output for a stored object observed with status st.
VNResp(obj, st) ==
    [mesh |-> obj.mesh, name |-> obj.name, owner |-> obj.owner, spec |-> obj.spec,
     uid |-> obj.uid, arn |-> obj.arn, status |-> st]

\* Whether the remote holds a virtual node under the natural key.
VNHas(rem, key) == Len(rem) = 1 /\ rem[1].mesh = key[1] /\ rem[1].name = key[2]

\* d.GetOk("mesh_owner"): the owner sent with a request, "" when unset.
MeshOwnerOf(rd) == rd.mesh_owner

\* The answers one describe call can give; "Hang": no answer before the
\* propagation window elapses; "Empty": success without a VirtualNode.
\* An object the remote holds is found, or not yet visible to the Read of a
\* resource just created; an object it does not hold is not found.
DescribeAnswers(found, isNew) ==
    {"Error", "Hang", "Empty"} \cup (IF found THEN {"Found"} ELSE {"NotFound"})
        \cup (IF isNew THEN {"NotFound"} ELSE {})

\* What the polling loop meets, in order: every element but the last is a
\* not-found answer; "Cancel" is the context being cancelled between polls.
PollScripts(found, isNew) ==
    {s \in UNION {[1..n -> DescribeAnswers(found, isNew) \cup {"Cancel"}] :
                      n \in 1..(IF isNew THEN MaxPolls ELSE 1)} :
        \A i \in 1..(Len(s) - 1) : s[i] = "NotFound"}

\* A Read whose call to the remote is a delete call.
DescribeAsDelete(req, ans, resp) ==
    Call("DeleteVirtualNode", req.key, req.owner, NoFields, ans,
         IF ans = "Found" THEN resp ELSE NoObj)

DescribeCall(req, ans, resp) ==
    Call("DescribeVirtualNode", req.key, req.owner, NoFields, ans,
         IF ans = "Found" THEN resp ELSE NoObj)

\* The error a describe answer stands for.
ErrOf(ans) ==
    CASE ans = "NotFound" -> "NotFound"
      [] ans = "Error" -> "Error"
      [] OTHER -> "none"

\* A retry function that takes a remote error of a new resource for
\* retryable too.
RetryableAnyError(isNew, ans) == isNew /\ ans \in {"NotFound", "Error"}

\* The retry function's verdict on a describe answer: a not-found answer is
\* retryable for a new resource only.
Retryable(isNew, ans) == isNew /\ ans = "NotFound"

\* A polling loop that calls the retry function once more after the window
\* has elapsed.
RECURSIVE RetryContextPastWindow(_, _, _, _, _, _)
RetryContextPastWindow(isNew, req, resp, script, i, acc) ==
    LET stopped(why, none) ==
            [err |-> IF acc.resultErr = "none" THEN none ELSE acc.resultErr,
             resp |-> NoObj, calls |-> acc.calls, loop |-> why]
    IN
    IF i > Len(script)
    THEN [stopped("window", "Timeout") EXCEPT
             !.calls = Append(acc.calls, DescribeCall(req, "NotFound", resp))]
    ELSE IF script[i] = "Cancel" THEN stopped("cancel", "Canceled")
    ELSE
      LET ans == script[i]
          calls == Append(acc.calls, DescribeCall(req, ans, resp))
      IN  IF ans = "Hang"
          THEN [stopped("hang", "Timeout") EXCEPT !.calls = calls]
          ELSE IF Retryable(isNew, ans)
          THEN RetryContextPastWindow(isNew, req, resp, script, i + 1,
                                      [resultErr |-> ErrOf(ans), calls |-> calls])
          ELSE [err |-> ErrOf(ans), resp |-> IF ans = "Found" THEN resp ELSE NoObj,
                calls |-> calls, loop |-> "done"]

\* A polling loop that notices the cancellation only after one more call of
\* the retry function.
RECURSIVE RetryContextLateCancel(_, _, _, _, _, _)
RetryContextLateCancel(isNew, req, resp, script, i, acc) ==
    LET stopped(why, none) ==
            [err |-> IF acc.resultErr = "none" THEN none ELSE acc.resultErr,
             resp |-> NoObj, calls |-> acc.calls, loop |-> why]
    IN
    IF i > Len(script) THEN stopped("window", "Timeout")
    ELSE IF script[i] = "Cancel"
    THEN [stopped("cancel", "Canceled") EXCEPT
             !.calls = Append(acc.calls, DescribeCall(req, "NotFound", resp))]
    ELSE
      LET ans == script[i]
          calls == Append(acc.calls, DescribeCall(req, ans, resp))
      IN  IF ans = "Hang"
          THEN [stopped("hang", "Timeout") EXCEPT !.calls = calls]
          ELSE IF Retryable(isNew, ans)
          THEN RetryContextLateCancel(isNew, req, resp, script, i + 1,
                                      [resultErr |-> ErrOf(ans), calls |-> calls])
          ELSE [err |-> ErrOf(ans), resp |-> IF ans = "Found" THEN resp ELSE NoObj,
                calls |-> calls, loop |-> "done"]

\* resource.RetryContext (plugin SDK): calls the retry function until it
\* answers nil or a non-retryable error, the window elapses or the context
\* is cancelled.  When it stops without success it returns the error of the
\* last completed call if there is one (resultErr takes precedence over the
\* wait error), and the bare *TimeoutError ("Timeout") or the context's
\* error ("Canceled") only when no call completed.
RECURSIVE RetryContext(_, _, _, _, _, _)
RetryContext(isNew, req, resp, script, i, acc) ==
    LET stopped(why, none) ==
            [err |-> IF acc.resultErr = "none" THEN none ELSE acc.resultErr,
             resp |-> NoObj, calls |-> acc.calls, loop |-> why]
    IN
    IF i > Len(script) THEN stopped("window", "Timeout")
    ELSE IF script[i] = "Cancel" THEN stopped("cancel", "Canceled")
    ELSE
      LET ans == script[i]
          calls == Append(acc.calls, DescribeCall(req, ans, resp))
      IN  IF ans = "Hang"
          THEN [stopped("hang", "Timeout") EXCEPT !.calls = calls]
          ELSE IF Retryable(isNew, ans)
          THEN RetryContext(isNew, req, resp, script, i + 1,
                            [resultErr |-> ErrOf(ans), calls |-> calls])
          ELSE [err |-> ErrOf(ans), resp |-> IF ans = "Found" THEN resp ELSE NoObj,
                calls |-> calls, loop |-> "done"]

\* tfresource.TimedOut(err): err is a *TimeoutError whose LastError is nil.
TimedOut(err) == err = "Timeout"

\* A Read that takes a not-found error for an out-of-band deletion even
\* when the resource is new.
RemoveOnAnyNotFound(isNew, err) == err = "NotFound"

\* A Read that takes a remote error of a resource that is not new for an
\* out-of-band deletion too.
RemoveOnAnyError(isNew, err) == ~isNew /\ err \in {"NotFound", "Error"}

\* A Read that never takes a not-found error for an out-of-band deletion.
RemoveNever(isNew, err) == FALSE

\* Line 1053: a not-found error of a resource that is not new.
RemoveOnNotFound(isNew, err) == ~isNew /\ err = "NotFound"

\* A Read that takes the transitional status INACTIVE for a deletion too.
IsDeletedOrInactive(st) == st \in {"DELETED", "INACTIVE"}

\* Line 1067: the status that stands for a deleted virtual node.
IsDeletedStatus(st) == st = VirtualNodeStatusCodeDeleted

\* A Read that reports a deleted status as absence whether or not the
\* resource is new.
DeletedAlwaysAbsent(rd, rem, isNew, calls, lp) ==
    Result([rd EXCEPT !.id = <<>>], rem, calls, "none", lp)

\* Lines 1068-1074: a deleted status is an error for a new resource, and
\* clears the identity otherwise.
DeletedOutcome(rd, rem, isNew, calls, lp) ==
    IF isNew
    THEN Result(rd, rem, calls, "DeletedAfterCreation", lp)
    ELSE Result([rd EXCEPT !.id = <<>>], rem, calls, "none", lp)

resourceVirtualNodeRead(rd, isNew, rem, script, st, extra, tagsAns) ==
    LET req == [key |-> <<rd.mesh_name, rd.name>>, owner |-> MeshOwnerOf(rd)]
        resp == IF VNHas(rem, req.key) THEN <<VNResp(rem[1], st)>> ELSE NoObj
        r1 == RetryContext(isNew, req, resp, script, 1,
                           [resultErr |-> "none", calls |-> <<>>])
        r2 == IF TimedOut(r1.err)
              THEN [err |-> ErrOf(extra),
                    resp |-> IF extra = "Found" THEN resp ELSE NoObj,
                    calls |-> Append(r1.calls, DescribeCall(req, extra, resp))]
              ELSE r1
        lp == [how |-> r1.loop, again |-> TimedOut(r1.err)]
    IN
    IF RemoveOnNotFound(isNew, r2.err)
    THEN Result([rd EXCEPT !.id = <<>>], rem, r2.calls, "none", lp)
    ELSE IF r2.err # "none" THEN Result(rd, rem, r2.calls, r2.err, lp)
    ELSE IF r2.resp = NoObj THEN Result(rd, rem, r2.calls, "EmptyResponse", lp)
    ELSE
      LET vn == r2.resp[1] IN
      IF IsDeletedStatus(vn.status) THEN DeletedOutcome(rd, rem, isNew, r2.calls, lp)
      ELSE
        LET rd1 == [rd EXCEPT !.name = vn.name, !.mesh_name = vn.mesh,
                              !.mesh_owner = vn.owner, !.arn = vn.arn,
                              !.spec = flattenVirtualNodeSpec(vn.spec)]
            calls == Append(r2.calls,
                            Call("ListTags", <<vn.arn>>, "", NoFields, tagsAns, NoObj))
        IN  IF tagsAns # "Ok" THEN Result(rd1, rem, calls, "ListTags", lp)
            ELSE Result([rd1 EXCEPT !.tags_all = rem[1].tags], rem, calls, "none", lp)

\* A Create that sets the identity and performs the Read whether or not
\* the create call succeeded.
VirtualNodeCreateReadsRegardless(rd, rem, createAns, script, st, extra, tagsAns) ==
    LET req == [key |-> <<rd.mesh_name, rd.name>>, owner |-> MeshOwnerOf(rd),
                fields |-> [spec |-> expandVirtualNodeSpec(rd.spec), tags |-> rd.tags_all]]
        call == Call("CreateVirtualNode", req.key, req.owner, req.fields, createAns, NoObj)
        rem1 == IF createAns = "Ok" THEN <<VNStored(req)>> ELSE rem
        r == resourceVirtualNodeRead([rd EXCEPT !.id = Uid], TRUE, rem1,
                                     script, st, extra, tagsAns)
    IN  [r EXCEPT !.calls = <<call>> \o r.calls]

resourceVirtualNodeCreate(rd, rem, createAns, script, st, extra, tagsAns) ==
    LET req == [key |-> <<rd.mesh_name, rd.name>>, owner |-> MeshOwnerOf(rd),
                fields |-> [spec |-> expandVirtualNodeSpec(rd.spec), tags |-> rd.tags_all]]
        call == Call("CreateVirtualNode", req.key, req.owner, req.fields, createAns, NoObj)
    IN  IF createAns # "Ok" THEN Result(rd, rem, <<call>>, "Create", NoLoop)
        ELSE LET rem1 == <<VNStored(req)>>
                 r == resourceVirtualNodeRead([rd EXCEPT !.id = rem1[1].uid], TRUE, rem1,
                                              script, st, extra, tagsAns)
             IN  [r EXCEPT !.calls = <<call>> \o r.calls]

\* d.HasChange(attr) between the tracked state and the planned one.
HasChange(old, rd, attr) == old[attr] # rd[attr]

resourceVirtualNodeUpdate(old, rd, rem, updAns, tagAns, script, st, extra, tagsAns) ==
    LET key == <<rd.mesh_name, rd.name>>
        c1 == IF HasChange(old, rd, "spec")
              THEN <<Call("UpdateVirtualNode", key, MeshOwnerOf(rd),
                          [spec |-> expandVirtualNodeSpec(rd.spec)], updAns, NoObj)>>
              ELSE <<>>
        rem1 == IF c1 # <<>> /\ updAns = "Ok"
                THEN <<[rem[1] EXCEPT !.spec = expandVirtualNodeSpec(rd.spec)]>>
                ELSE rem
        c2 == IF HasChange(old, rd, "tags_all")
              THEN <<Call("UpdateTags", <<rd.arn>>, "",
                          [old |-> old.tags_all, new |-> rd.tags_all], tagAns, NoObj)>>
              ELSE <<>>
        rem2 == IF c2 # <<>> /\ tagAns = "Ok"
                THEN <<[rem1[1] EXCEPT !.tags = rd.tags_all]>>
                ELSE rem1
    IN  IF c1 # <<>> /\ updAns # "Ok" THEN Result(rd, rem, c1, "Update", NoLoop)
        ELSE IF c2 # <<>> /\ tagAns # "Ok" THEN Result(rd, rem1, c1 \o c2, "UpdateTags", NoLoop)
        ELSE LET r == resourceVirtualNodeRead(rd, FALSE, rem2, script, st, extra, tagsAns)
             IN  [r EXCEPT !.calls = c1 \o c2 \o r.calls]

\* A Delete that tolerates every error of the delete call.
DeleteToleratesEverything(ans) == TRUE

\* A Delete that tolerates no error of the delete call.
DeleteToleratesNothing(ans) == FALSE

\* Lines 1155-1157: the delete error that counts as success.
DeleteTolerates(ans) == ans = "NotFound"

\* What is left of the remote object after a delete call.
AfterDelete(rem, ans) == IF ans = "Ok" THEN <<>> ELSE rem

\* A Delete that addresses the node by its name alone, in the mesh of the
\* base configuration.
VirtualNodeDeleteByName(rd, rem, delAns) ==
    LET call == Call("DeleteVirtualNode", <<VNBase.mesh_name, rd.name>>, "", NoFields,
                     delAns, NoObj)
        rem1 == AfterDelete(rem, delAns)
    IN  IF DeleteTolerates(delAns) THEN Result(rd, rem1, <<call>>, "none", NoLoop)
        ELSE IF delAns # "Ok" THEN Result(rd, rem1, <<call>>, "Delete", NoLoop)
        ELSE Result(rd, rem1, <<call>>, "none", NoLoop)

resourceVirtualNodeDelete(rd, rem, delAns) ==
    LET call == Call("DeleteVirtualNode", <<rd.mesh_name, rd.name>>, "", NoFields,
                     delAns, NoObj)
        rem1 == AfterDelete(rem, delAns)
    IN  IF DeleteTolerates(delAns) THEN Result(rd, rem1, <<call>>, "none", NoLoop)
        ELSE IF delAns # "Ok" THEN Result(rd, rem1, <<call>>, "Delete", NoLoop)
        ELSE Result(rd, rem1, <<call>>, "none", NoLoop)

\* An import that accepts every reference of two components or more.
AtLeastTwoComponents(parts) == Len(parts) >= 2

\* Line 1168: the number of components an import reference must have.
WellFormedImport(parts) == Len(parts) = 2

\* An import that describes the virtual node but keeps the reference as
\* the identity.
VirtualNodeImportKeepsReference(id, rem, st, ans) ==
    LET parts == Split(id) IN
    IF ~WellFormedImport(parts) THEN Result(VNEmpty, rem, <<>>, "WrongFormat", NoLoop)
    ELSE
      LET req == [key |-> <<parts[1], parts[2]>>, owner |-> ""]
          resp == IF VNHas(rem, req.key) THEN <<VNResp(rem[1], st)>> ELSE NoObj
          call == DescribeCall(req, ans, resp)
      IN  IF ErrOf(ans) # "none" THEN Result(VNEmpty, rem, <<call>>, ErrOf(ans), NoLoop)
          ELSE Result([VNEmpty EXCEPT !.id = id, !.name = resp[1].name,
                                      !.mesh_name = resp[1].mesh],
                      rem, <<call>>, "none", NoLoop)

resourceVirtualNodeImport(id, rem, st, ans) ==
    LET parts == Split(id) IN
    IF ~WellFormedImport(parts) THEN Result(VNEmpty, rem, <<>>, "WrongFormat", NoLoop)
    ELSE
      LET req == [key |-> <<parts[1], parts[2]>>, owner |-> ""]
          resp == IF VNHas(rem, req.key) THEN <<VNResp(rem[1], st)>> ELSE NoObj
          call == DescribeCall(req, ans, resp)
      IN  IF ErrOf(ans) # "none" THEN Result(VNEmpty, rem, <<call>>, ErrOf(ans), NoLoop)
          ELSE Result([VNEmpty EXCEPT !.id = resp[1].uid, !.name = resp[1].name,
                                      !.mesh_name = resp[1].mesh],
                      rem, <<call>>, "none", NoLoop)

----------------------------------------------------------------------------
(* Transfer Access.                                                        *)

\* The optional attributes, in the order Create and Update map them.
TAOptional ==
    {"home_directory", "home_directory_mappings", "home_directory_type", "policy",
     "posix_profile", "role"}

TAAttrs == {"external_id", "server_id"} \cup TAOptional

\* Schema: the attributes declared ForceNew.
TAForceNew == {"server_id"}

HomeDirectoryTypePath == "PATH"

\* The base configuration sets no optional attribute: home_directory_type
\* takes the schema default (line 67).  "explicit" is the presence
\* information of the configuration: the optional attributes it writes down.
TABase ==
    [external_id |-> <<"b">>, server_id |-> <<"a">>, home_directory |-> "",
     home_directory_mappings |-> <<>>, home_directory_type |-> HomeDirectoryTypePath,
     policy |-> "", posix_profile |-> <<>>, role |-> "", explicit |-> {}]

\* The desired configurations: the base one, those that depart from it in
\* one attribute ("bad" is a policy that is not JSON), and those that write
\* down an optional attribute with its zero value.
TAConfigs ==
    {TABase} \cup
    {[TABase EXCEPT ![v[1]] = v[2], !.explicit = {v[1]} \cap TAOptional] :
        v \in {<<"external_id", <<"a">> >>, <<"external_id", <<"b", "/", "b">> >>,
               <<"server_id", <<"b">> >>, <<"home_directory", "h">>,
               <<"home_directory_mappings", <<"m">> >>,
               <<"home_directory_type", "LOGICAL">>, <<"policy", "{ }">>,
               <<"policy", "bad">>, <<"posix_profile", <<"px">> >>, <<"role", "r">>}} \cup
    {[TABase EXCEPT !.explicit = {a}] : a \in {"home_directory", "role"}}

TAEmpty ==
    [id |-> <<>>, external_id |-> <<>>, server_id |-> <<>>, home_directory |-> "",
     home_directory_mappings |-> <<>>, home_directory_type |-> "", policy |-> "",
     posix_profile |-> <<>>, role |-> "", explicit |-> {}]

\* The resource data of a plan: the attributes of the configuration, with
\* its presence information (d.GetRawConfig), over what is tracked.
TAPlanned(rd, c) ==
    [a \in DOMAIN rd |-> IF a \in TAAttrs \cup {"explicit"} THEN c[a] ELSE rd[a]]

\* The zero value of an attribute, which d.GetOk reports as not set (it
\* does not consult the presence information of the configuration).
Zero(attr) ==
    IF attr \in {"home_directory_mappings", "posix_profile", "external_id", "server_id"}
    THEN <<>> ELSE ""

GetOk(rd, attr) == rd[attr] # Zero(attr)

\* structure.NormalizeJsonString: the empty string stays empty, valid JSON
\* is re-encoded without insignificant white space, anything else fails.
ValidJson(s) == s \in {"", "{ }", "{}"}
NormalizeJsonString(s) == IF s = "{ }" THEN "{}" ELSE s

\* verify.PolicyToSet: the tracked policy is kept when the remote one is
\* equivalent to it, and replaced by the remote one otherwise.
PolicyToSet(cur, new) ==
    IF NormalizeJsonString(cur) = NormalizeJsonString(new) THEN cur ELSE new

\* The wire forms of the nested blocks, and their inverses; a block absent
\* on the wire flattens to the empty list.
expandHomeDirectoryMappings(v) == <<"wire">> \o v
flattenHomeDirectoryMappings(w) == IF w = <<>> THEN <<>> ELSE Tail(w)
expandUserPOSIXUser(v) == <<"wire">> \o v
flattenUserPOSIXUser(w) == IF w = <<>> THEN <<>> ELSE Tail(w)

\* The request value of an optional attribute.
WireValue(rd, attr) ==
    CASE attr = "home_directory_mappings" -> expandHomeDirectoryMappings(rd[attr])
      [] attr = "posix_profile" -> expandUserPOSIXUser(rd[attr])
      [] attr = "policy" -> NormalizeJsonString(rd[attr])
      [] OTHER -> rd[attr]

\* A create mapping that sends home_directory in the Role field.
WireFieldMisplaced(attr) ==
    CASE attr = "home_directory_mappings" -> "HomeDirectoryMappings"
      [] attr = "home_directory_type" -> "HomeDirectoryType"
      [] attr = "policy" -> "Policy"
      [] attr = "posix_profile" -> "PosixProfile"
      [] OTHER -> "Role"

\* The request field an attribute is sent in.
WireField(attr) ==
    CASE attr = "home_directory" -> "HomeDirectory"
      [] attr = "home_directory_mappings" -> "HomeDirectoryMappings"
      [] attr = "home_directory_type" -> "HomeDirectoryType"
      [] attr = "policy" -> "Policy"
      [] attr = "posix_profile" -> "PosixProfile"
      [] OTHER -> "Role"

\* The populated optional fields of a request that carries the attributes S.
WireFields(rd, S) ==
    [f \in {WireField(a) : a \in S} |->
        WireValue(rd, CHOOSE a \in S : WireField(a) = f)]

\* AccessCreateResourceID: server id and external id joined by the separator.
AccessCreateResourceID(serverID, externalID) == Join(<<serverID, externalID>>)

\* AccessParseResourceID: the two components of an identity, or an error.
AccessParseOk(id) == Len(Split(id)) = 2
AccessParseResourceID(id) == Split(id)

\* The remote object after a create or update call with the given fields.
TAStored(old, key, fields) ==
    [f \in {"HomeDirectory", "HomeDirectoryMappings", "HomeDirectoryType", "Policy",
            "PosixProfile", "Role"} |->
        IF f \in DOMAIN fields THEN fields[f] ELSE old[f]]
      @@ [ServerId |-> key[1], ExternalId |-> key[2]]

\* What the service holds for the fields a create request omits.
TAUnset ==
    [HomeDirectory |-> "", HomeDirectoryMappings |-> <<>>,
     HomeDirectoryType |-> HomeDirectoryTypePath, Policy |-> "", PosixProfile |-> <<>>,
     Role |-> ""]

TAHas(rem, key) == Len(rem) = 1 /\ rem[1].ServerId = key[1] /\ rem[1].ExternalId = key[2]

\* The answers of the lookup of an access.
LookupAnswers(found, isNew) ==
    {"Error"} \cup (IF found THEN {"Found"} ELSE {"NotFound"})
        \cup (IF isNew THEN {"NotFound"} ELSE {})

\* FindAccessByServerIDAndExternalID: one DescribeAccess call.
FindAccessByServerIDAndExternalID(key, rem, ans) ==
    Call("DescribeAccess", key, "", NoFields, ans,
         IF ans = "Found" THEN <<rem[1]>> ELSE NoObj)

\* A Read of an access that takes a not-found error for an out-of-band
\* deletion even when the resource is new.
AccessRemoveOnAnyNotFound(isNew, err) == err = "NotFound"

\* Line 189: a not-found error of a resource that is not new.
AccessRemoveOnNotFound(isNew, err) == ~isNew /\ err = "NotFound"

\* A Read of an access that also sets role from the response.
AccessReadSetsRole(rd, isNew, rem, ans) ==
    IF ~AccessParseOk(rd.id) THEN Result(rd, rem, <<>>, "ParseID", NoLoop)
    ELSE
      LET key == AccessParseResourceID(rd.id)
          call == FindAccessByServerIDAndExternalID(key, rem, ans)
      IN  IF AccessRemoveOnNotFound(isNew, ErrOf(ans))
          THEN Result([rd EXCEPT !.id = <<>>], rem, <<call>>, "none", NoLoop)
          ELSE IF ErrOf(ans) # "none" THEN Result(rd, rem, <<call>>, ErrOf(ans), NoLoop)
          ELSE
            LET access == call.obj[1] IN
            Result([rd EXCEPT
                      !.external_id = access.ExternalId,
                      !.home_directory = access.HomeDirectory,
                      !.home_directory_mappings =
                          flattenHomeDirectoryMappings(access.HomeDirectoryMappings),
                      !.home_directory_type = access.HomeDirectoryType,
                      !.posix_profile = flattenUserPOSIXUser(access.PosixProfile),
                      !.policy = PolicyToSet(rd.policy, access.Policy),
                      !.role = access.Role,
                      !.server_id = key[1]],
                   rem, <<call>>, "none", NoLoop)

resourceAccessRead(rd, isNew, rem, ans) ==
    IF ~AccessParseOk(rd.id) THEN Result(rd, rem, <<>>, "ParseID", NoLoop)
    ELSE
      LET key == AccessParseResourceID(rd.id)
          call == FindAccessByServerIDAndExternalID(key, rem, ans)
      IN  IF AccessRemoveOnNotFound(isNew, ErrOf(ans))
          THEN Result([rd EXCEPT !.id = <<>>], rem, <<call>>, "none", NoLoop)
          ELSE IF ErrOf(ans) # "none" THEN Result(rd, rem, <<call>>, ErrOf(ans), NoLoop)
          ELSE
            LET access == call.obj[1] IN
            Result([rd EXCEPT
                      !.external_id = access.ExternalId,
                      !.home_directory = access.HomeDirectory,
                      !.home_directory_mappings =
                          flattenHomeDirectoryMappings(access.HomeDirectoryMappings),
                      !.home_directory_type = access.HomeDirectoryType,
                      !.posix_profile = flattenUserPOSIXUser(access.PosixProfile),
                      !.policy = PolicyToSet(rd.policy, access.Policy),
                      !.server_id = key[1]],
                   rem, <<call>>, "none", NoLoop)

\* A Create that normalises the policy only after the create call.
AccessCreateValidatesLate(rd, rem, createAns, ans) ==
    LET key == <<rd.server_id, rd.external_id>>
        id == AccessCreateResourceID(rd.server_id, rd.external_id)
        fields == WireFields(rd, {a \in TAOptional : GetOk(rd, a)})
        call == Call("CreateAccess", key, "", fields, createAns, NoObj)
    IN  IF createAns # "Ok" THEN Result(rd, rem, <<call>>, "Create", NoLoop)
        ELSE LET rem1 == <<TAStored(TAUnset, key, fields)>>
                 r == resourceAccessRead([rd EXCEPT !.id = id], TRUE, rem1, ans)
             IN  IF GetOk(rd, "policy") /\ ~ValidJson(rd.policy)
                 THEN Result(rd, rem1, <<call>>, "Policy", NoLoop)
                 ELSE [r EXCEPT !.calls = <<call>> \o r.calls]

resourceAccessCreate(rd, rem, createAns, ans) ==
    LET key == <<rd.server_id, rd.external_id>>
        id == AccessCreateResourceID(rd.server_id, rd.external_id)
        fields == WireFields(rd, {a \in TAOptional : GetOk(rd, a)})
        call == Call("CreateAccess", key, "", fields, createAns, NoObj)
    IN  IF GetOk(rd, "policy") /\ ~ValidJson(rd.policy)
        THEN Result(rd, rem, <<>>, "Policy", NoLoop)
        ELSE IF createAns # "Ok" THEN Result(rd, rem, <<call>>, "Create", NoLoop)
        ELSE LET rem1 == <<TAStored(TAUnset, key, fields)>>
                 r == resourceAccessRead([rd EXCEPT !.id = id], TRUE, rem1, ans)
             IN  [r EXCEPT !.calls = <<call>> \o r.calls]

\* An Update that performs the Read whether or not the update call
\* succeeded.
AccessUpdateReadsRegardless(old, rd, rem, updAns, ans) ==
    IF ~AccessParseOk(rd.id) THEN Result(rd, rem, <<>>, "ParseID", NoLoop)
    ELSE
      LET key == AccessParseResourceID(rd.id)
          fields == WireFields(rd, {a \in TAOptional : HasChange(old, rd, a)})
          call == Call("UpdateAccess", key, "", fields, updAns, NoObj)
      IN  IF HasChange(old, rd, "policy") /\ ~ValidJson(rd.policy)
          THEN Result(rd, rem, <<>>, "Policy", NoLoop)
          ELSE LET rem1 == IF updAns = "Ok" THEN <<TAStored(rem[1], key, fields)>> ELSE rem
                   r == resourceAccessRead(rd, FALSE, rem1, ans)
               IN  [r EXCEPT !.calls = <<call>> \o r.calls]

resourceAccessUpdate(old, rd, rem, updAns, ans) ==
    IF ~AccessParseOk(rd.id) THEN Result(rd, rem, <<>>, "ParseID", NoLoop)
    ELSE
      LET key == AccessParseResourceID(rd.id)
          fields == WireFields(rd, {a \in TAOptional : HasChange(old, rd, a)})
          call == Call("UpdateAccess", key, "", fields, updAns, NoObj)
      IN  IF HasChange(old, rd, "policy") /\ ~ValidJson(rd.policy)
          THEN Result(rd, rem, <<>>, "Policy", NoLoop)
          ELSE IF updAns # "Ok" THEN Result(rd, rem, <<call>>, "Update", NoLoop)
          ELSE LET rem1 == <<TAStored(rem[1], key, fields)>>
                   r == resourceAccessRead(rd, FALSE, rem1, ans)
               IN  [r EXCEPT !.calls = <<call>> \o r.calls]

\* Lines 294-296: the delete error that counts as success.
AccessDeleteTolerates(ans) == ans = "NotFound"

resourceAccessDelete(rd, rem, delAns) ==
    IF ~AccessParseOk(rd.id) THEN Result(rd, rem, <<>>, "ParseID", NoLoop)
    ELSE
      LET call == Call("DeleteAccess", AccessParseResourceID(rd.id), "", NoFields,
                       delAns, NoObj)
          rem1 == AfterDelete(rem, delAns)
      IN  IF AccessDeleteTolerates(delAns) THEN Result(rd, rem1, <<call>>, "none", NoLoop)
          ELSE IF delAns # "Ok" THEN Result(rd, rem1, <<call>>, "Delete", NoLoop)
          ELSE Result(rd, rem1, <<call>>, "none", NoLoop)

\* schema.ImportStatePassthroughContext: the reference becomes the identity.
ImportStatePassthroughContext(id, rem) ==
    Result([TAEmpty EXCEPT !.id = id], rem, <<>>, "none", NoLoop)

----------------------------------------------------------------------------
(* The state machine: the host calls the handlers of one resource.         *)

\* The record kept of the last handler run: the operation, whether the
\* resource data was marked new, the calls issued in order, the error
\* ("none": success), how the polling loop ended, whether a describe call
\* followed the loop, the operation run before, the attributes that
\* differed between tracked and desired state (Update), the import
\* reference (Import) or the desired configuration (Create), the identity
\* tracked before the run and the resource data as the handler left it.
Ran(op, isNew, r, changed, arg, idBefore) ==
    [op |-> op, isNew |-> isNew, calls |-> r.calls, err |-> r.err, loop |-> r.loop,
     again |-> r.again, prev |-> last.op, changed |-> changed, arg |-> arg,
     idBefore |-> idBefore, d |-> r.d]

Idle(rd) ==
    [op |-> "none", isNew |-> FALSE, calls |-> <<>>, err |-> "none", loop |-> "none",
     again |-> FALSE, prev |-> "none", changed |-> {}, arg |-> <<>>,
     idBefore |-> rd.id, d |-> rd]

Empty(k) == IF k = "vn" THEN VNEmpty ELSE TAEmpty

\* The inputs of one Read of a virtual node: what the polling loop meets,
\* the status a found object shows, the answer of the describe call made
\* after a timeout, and the answer of the tag listing.  Inputs the run does
\* not consult are fixed.
ReadInputsOf(found, isNew) ==
    {in \in [script : PollScripts(found, isNew), st : VNStatuses,
             extra : DescribeAnswers(found, isNew) \ {"Hang"}, tagsAns : {"Ok", "Error"}] :
        LET hang == in.script[1] = "Hang"
            finds == in.script[Len(in.script)] = "Found" \/ (hang /\ in.extra = "Found")
        IN  /\ ~hang => in.extra = "Error"
            /\ ~finds => in.st = "ACTIVE"
            /\ (~finds \/ in.st = "DELETED") => in.tagsAns = "Ok"}

ReadInputsTable ==
    [found \in BOOLEAN, isNew \in BOOLEAN |-> {in : in \in ReadInputsOf(found, isNew)}]
ReadInputs(found, isNew) == ReadInputsTable[found, isNew]

\* The references Import is tried with.
ImportRefs == {s : s \in StrUpTo(MaxIdLen)}

\* The answers of a mutating call: it succeeds only where the remote state
\* allows it.
MutateAnswers(possible) == {"Error"} \cup (IF possible THEN {"Ok"} ELSE {})

DeleteAnswers(found) == {"Error"} \cup (IF found THEN {"Ok"} ELSE {"NotFound"})

\* The host's plan: a change to a ForceNew attribute replaces the resource
\* (Delete, then Create) instead of updating it.
RequiresNew(changed, forceNew) == changed \cap forceNew # {}

\* The context handed to every handler: the client handle and the default
\* tags configuration of the provider.
Meta == [conn |-> "client", DefaultTagsConfig |-> "t0"]

\* No list-pages helper runs.
PagesIdle ==
    /\ pgInput = <<>>
    /\ pgOutput = <<>>
    /\ pgPc = "idle"
    /\ pgLog = <<>>
    /\ pgRemote = <<>>

\* No key pair is handled.
KeyPairIdle ==
    /\ kp = <<>>
    /\ kpRemote = <<>>
    /\ kpLast = <<>>

\* Nothing runs side by side.
PairIdle ==
    /\ insts = <<>>
    /\ store = {}
    /\ meta = Meta
    /\ ran = <<>>

Init ==
    /\ kind \in {"vn", "ta"}
    /\ d = Empty(kind)
    /\ remote = <<>>
    /\ last = Idle(d)
    /\ runs = 0
    /\ PairIdle
    /\ KeyPairIdle
    /\ PagesIdle

\* An import is completed by a Read, and the host runs no other handler on
\* the imported resource before it.
Imported == last.op = "Import" /\ d.id # <<>>

\* A handler has run.  The host keeps the resource data the handler left;
\* it keeps nothing of a resource whose identity is unset, nor of an import
\* whose Read failed.
Finish(op, isNew, r, changed, arg) ==
    /\ runs < MaxRuns
    /\ runs' = runs + 1
    /\ d' = IF r.d.id = <<>> \/ (Imported /\ r.err # "none") THEN Empty(kind) ELSE r.d
    /\ remote' = r.rem
    /\ last' = Ran(op, isNew, r, changed, arg, d.id)
    /\ UNCHANGED <<kind, Aside>>

VNCreate ==
    /\ kind = "vn"
    /\ d.id = <<>>
    /\ \E c \in VNConfigs, createAns \in MutateAnswers(remote = <<>>),
          in \in ReadInputs(TRUE, TRUE) :
          /\ createAns # "Ok" => in = CHOOSE x \in ReadInputs(TRUE, TRUE) : TRUE
          /\ Finish("Create", TRUE,
                    resourceVirtualNodeCreate(VNPlanned(VNEmpty, c), remote, createAns,
                                              in.script, in.st, in.extra, in.tagsAns),
                    {}, c)

VNRead ==
    /\ kind = "vn"
    /\ d.id # <<>>
    /\ \E in \in ReadInputs(VNHas(remote, <<d.mesh_name, d.name>>), FALSE) :
          Finish("Read", FALSE,
                 resourceVirtualNodeRead(d, FALSE, remote, in.script, in.st, in.extra,
                                         in.tagsAns),
                 {}, <<>>)

VNUpdate ==
    /\ kind = "vn"
    /\ d.id # <<>>
    /\ ~Imported
    /\ \E c \in VNConfigs :
          LET rd == VNPlanned(d, c)
              changed == {a \in VNAttrs : HasChange(d, rd, a)}
              found == VNHas(remote, <<rd.mesh_name, rd.name>>)
          IN  /\ changed # {}
              /\ ~RequiresNew(changed, VNForceNew)
              /\ \E updAns \in MutateAnswers(found), tagAns \in MutateAnswers(found),
                    in \in ReadInputs(found, FALSE) :
                    /\ "spec" \notin changed => updAns = "Error"
                    /\ "tags_all" \notin changed => tagAns = "Error"
                    /\ Finish("Update", FALSE,
                              resourceVirtualNodeUpdate(d, rd, remote, updAns, tagAns,
                                  in.script, in.st, in.extra, in.tagsAns),
                              changed, <<>>)

VNDelete ==
    /\ kind = "vn"
    /\ d.id # <<>>
    /\ ~Imported
    /\ \E delAns \in DeleteAnswers(VNHas(remote, <<d.mesh_name, d.name>>)) :
          Finish("Delete", FALSE, resourceVirtualNodeDelete(d, remote, delAns), {}, <<>>)

VNImport ==
    /\ kind = "vn"
    /\ d.id = <<>>
    /\ \E id \in ImportRefs, st \in VNStatuses :
          LET parts == Split(id)
              found == Len(parts) = 2 /\ VNHas(remote, parts)
          IN  \E ans \in {"Error"} \cup (IF found THEN {"Found"} ELSE {"NotFound"}) :
                 /\ ans # "Found" => st = "ACTIVE"
                 /\ Finish("Import", FALSE, resourceVirtualNodeImport(id, remote, st, ans),
                           {}, id)

TACreate ==
    /\ kind = "ta"
    /\ d.id = <<>>
    /\ \E c \in TAConfigs, createAns \in MutateAnswers(remote = <<>>),
          ans \in LookupAnswers(TRUE, TRUE) :
          Finish("Create", TRUE,
                 resourceAccessCreate(TAPlanned(TAEmpty, c), remote, createAns, ans),
                 {}, c)

TARead ==
    /\ kind = "ta"
    /\ d.id # <<>>
    /\ \E ans \in LookupAnswers(AccessParseOk(d.id)
                                  /\ TAHas(remote, AccessParseResourceID(d.id)), FALSE) :
          Finish("Read", FALSE, resourceAccessRead(d, FALSE, remote, ans), {}, <<>>)

TAUpdate ==
    /\ kind = "ta"
    /\ d.id # <<>>
    /\ ~Imported
    /\ \E c \in TAConfigs :
          LET rd == TAPlanned(d, c)
              changed == {a \in TAAttrs : HasChange(d, rd, a)}
              found == AccessParseOk(d.id) /\ TAHas(remote, AccessParseResourceID(d.id))
          IN  /\ changed # {}
              /\ ~RequiresNew(changed, TAForceNew)
              /\ \E updAns \in MutateAnswers(found), ans \in LookupAnswers(found, FALSE) :
                    Finish("Update", FALSE,
                           resourceAccessUpdate(d, rd, remote, updAns, ans), changed, <<>>)

TADelete ==
    /\ kind = "ta"
    /\ d.id # <<>>
    /\ ~Imported
    /\ \E delAns \in DeleteAnswers(AccessParseOk(d.id)
                                    /\ TAHas(remote, AccessParseResourceID(d.id))) :
          Finish("Delete", FALSE, resourceAccessDelete(d, remote, delAns), {}, <<>>)

TAImport ==
    /\ kind = "ta"
    /\ d.id = <<>>
    /\ \E id \in ImportRefs \ {<<>>} :
          Finish("Import", FALSE, ImportStatePassthroughContext(id, remote), {}, id)

\* The host drops the resource from its state after a Delete.
HostForget ==
    /\ d.id # <<>>
    /\ ~Imported
    /\ d' = Empty(kind)
    /\ last' = Idle(d')
    /\ UNCHANGED <<kind, remote, runs, Aside>>

\* The remote object is deleted by someone else.
OutOfBandDelete ==
    /\ remote # <<>>
    /\ ~Imported
    /\ remote' = <<>>
    /\ last' = Idle(d)
    /\ UNCHANGED <<kind, d, runs, Aside>>

Next ==
    \/ VNCreate
    \/ VNRead
    \/ VNUpdate
    \/ VNDelete
    \/ VNImport
    \/ TACreate
    \/ TARead
    \/ TAUpdate
    \/ TADelete
    \/ TAImport
    \/ HostForget
    \/ OutOfBandDelete

Spec == Init /\ [][Next]_vars

----------------------------------------------------------------------------
(* Properties.  `last' is the record of the handler that ran last; last.d  *)
(* is the resource data as that handler left it.                           *)

LookupApis == {"DescribeVirtualNode", "DescribeAccess"}
DeleteApis == {"DeleteVirtualNode", "DeleteAccess"}

\* The i-th call of the last handler is a lookup that answered ans.
LookupAnswered(i, ans) ==
    last.calls[i].api \in LookupApis /\ last.calls[i].ans = ans

\* The last handler ran on a resource that was not new: a Read, or the Read
\* that ends an Update.
OnExisting == last.op \in {"Read", "Update"} /\ ~last.isNew

DeleteAnsweredNotFound ==
    /\ last.op = "Delete"
    /\ \E i \in DOMAIN last.calls :
          last.calls[i].api \in DeleteApis /\ last.calls[i].ans = "NotFound"

\* C1: Delete of a virtual node or of a Transfer Access succeeds when the
\* remote delete call answers not-found; it issues that one call only.  A
\* second Delete on the same identity, answered not-found because the first
\* one removed the object, therefore does not fail.
IdempotentDelete ==
    DeleteAnsweredNotFound => last.err = "none" /\ Len(last.calls) = 1

\* A second Delete in succession on the same identity, answered not-found,
\* has succeeded.
IdempotentDeleteWitness ==
    /\ DeleteAnsweredNotFound
    /\ last.prev = "Delete"
    /\ last.idBefore # <<>>
    /\ remote = <<>>
    /\ last.err = "none"

\* C2: when the Read of a virtual node that is not new finds the remote
\* object, it clears the identity and returns no error exactly when the
\* status is DELETED; for every other status the identity stays as it was
\* and name, mesh_name, mesh_owner, arn and spec are those of the response.
DriftOnStatus ==
    \A i \in DOMAIN last.calls :
        (kind = "vn" /\ OnExisting /\ LookupAnswered(i, "Found")) =>
            LET vn == last.calls[i].obj[1] IN
            /\ (last.d.id = <<>> /\ last.err = "none")
                   <=> vn.status = VirtualNodeStatusCodeDeleted
            /\ vn.status # VirtualNodeStatusCodeDeleted =>
                   /\ last.d.id = last.idBefore
                   /\ last.d.name = vn.name
                   /\ last.d.mesh_name = vn.mesh
                   /\ last.d.mesh_owner = vn.owner
                   /\ last.d.arn = vn.arn
                   /\ last.d.spec = flattenVirtualNodeSpec(vn.spec)

\* A Read of a tracked virtual node found it DELETED and cleared the
\* identity without an error.
DriftOnStatusWitness ==
    /\ kind = "vn"
    /\ last.op = "Read"
    /\ last.idBefore # <<>>
    /\ \E i \in DOMAIN last.calls :
          /\ LookupAnswered(i, "Found")
          /\ last.calls[i].obj[1].status = VirtualNodeStatusCodeDeleted
    /\ last.d.id = <<>>
    /\ last.err = "none"

\* C3: when the Read that ends the Create of a virtual node finds the
\* object with status DELETED, Create returns an error, no call follows the
\* describe call that found it, and the identity stays set.
AnomalousCreation ==
    \A i \in DOMAIN last.calls :
        (/\ kind = "vn"
         /\ last.op = "Create"
         /\ LookupAnswered(i, "Found")
         /\ last.calls[i].obj[1].status = VirtualNodeStatusCodeDeleted) =>
            /\ last.err \notin {"none", "NotFound"}
            /\ i = Len(last.calls)
            /\ last.d.id # <<>>

\* A Create whose Read polled through a not-found answer and then found
\* the virtual node DELETED has failed with the identity set.
AnomalousCreationWitness ==
    /\ kind = "vn"
    /\ last.op = "Create"
    /\ Len(last.calls) = 3
    /\ LookupAnswered(2, "NotFound")
    /\ LookupAnswered(3, "Found")
    /\ last.calls[3].obj[1].status = VirtualNodeStatusCodeDeleted
    /\ last.err = "DeletedAfterCreation"
    /\ last.d.id = Uid

\* C4: when a lookup of the Read of a resource that is not new (virtual
\* node or Transfer Access) answers not-found, Read clears the identity and
\* returns no error, and that lookup is the last call: it is the only
\* lookup that answered, and it is not repeated.
OutOfBandDeletion ==
    \A i \in DOMAIN last.calls :
        (OnExisting /\ LookupAnswered(i, "NotFound")) =>
            /\ last.d.id = <<>>
            /\ last.err = "none"
            /\ i = Len(last.calls)
            /\ \A j \in 1..(i - 1) :
                  last.calls[j].api \in LookupApis => last.calls[j].ans = "Hang"

\* A Read of a tracked Transfer Access whose remote object was deleted by
\* someone else has cleared the identity after one lookup.
OutOfBandDeletionWitness ==
    /\ kind = "ta"
    /\ last.op = "Read"
    /\ last.idBefore # <<>>
    /\ Len(last.calls) = 1
    /\ LookupAnswered(1, "NotFound")
    /\ last.d.id = <<>>
    /\ last.err = "none"

\* The same for a virtual node.
OutOfBandDeletionVirtualNode ==
    /\ kind = "vn"
    /\ last.op = "Read"
    /\ last.idBefore # <<>>
    /\ Len(last.calls) = 1
    /\ LookupAnswered(1, "NotFound")
    /\ last.d.id = <<>>
    /\ last.err = "none"

\* C5: in the Read that ends a Create, of a virtual node and of a Transfer
\* Access alike, a not-found answer is not fatal on first occurrence: it is
\* followed by another lookup unless the propagation window has elapsed or
\* the context was cancelled; and when a later lookup finds the object, the
\* not-found does not surface.
PropagationRetry ==
    \A i \in DOMAIN last.calls :
        (last.op = "Create" /\ LookupAnswered(i, "NotFound")) =>
            /\ i = Len(last.calls) => last.loop \in {"window", "hang", "cancel"}
            /\ (\E j \in (i + 1)..Len(last.calls) : LookupAnswered(j, "Found")) =>
                   last.err # "NotFound"

\* The polls of the Read that ends the Create of a virtual node answered
\* not-found until the propagation window elapsed.
WindowElapsedOnNotFound ==
    /\ kind = "vn"
    /\ last.op = "Create"
    /\ last.loop = "window"
    /\ \E i \in DOMAIN last.calls : LookupAnswered(i, "NotFound")
    /\ \A i \in DOMAIN last.calls :
          last.calls[i].api \in LookupApis => last.calls[i].ans = "NotFound"

\* C6 as stated: when the describe calls for a new virtual node answer
\* not-found until the propagation window elapses, Read issues exactly one
\* further describe call after the window; if that one is not-found too,
\* Read fails and the identity stays set.
PropagationTimeoutOneMoreCall ==
    WindowElapsedOnNotFound =>
        /\ last.again
        /\ LookupAnswered(Len(last.calls), "NotFound") =>
               last.err # "none" /\ last.d.id # <<>>

\* C6, amended: when the describe calls for a new virtual node answer
\* not-found until the propagation window elapses, Read issues no further
\* describe call, fails with the not-found error and leaves the identity
\* set.  One further describe call is issued exactly when the window
\* elapses before any describe call has answered; if that one answers
\* not-found, Read fails too.  In no case does a timeout clear the identity
\* of a new virtual node.
PropagationTimeout ==
    /\ WindowElapsedOnNotFound =>
           ~last.again /\ last.err = "NotFound" /\ last.d.id # <<>>
    /\ (kind = "vn" /\ last.op = "Create") =>
           /\ last.again <=> (Len(last.calls) >= 2 /\ LookupAnswered(2, "Hang"))
           /\ (last.again /\ LookupAnswered(Len(last.calls), "NotFound")) =>
                  last.err = "NotFound"
           /\ last.loop \in {"window", "hang"} => last.d.id # <<>>

\* A Create of a virtual node whose polls all answered not-found until the
\* window elapsed has failed with the identity set.
PropagationTimeoutWitness ==
    /\ WindowElapsedOnNotFound
    /\ Len(last.calls) = 1 + MaxPolls
    /\ last.err = "NotFound"
    /\ last.d.id = Uid
    /\ d.id = Uid

\* The calls of the last handler to the given operation.
CallsOf(api) == CallsTo(last.calls, api)

\* The last handler was an Update of a resource whose identity parses, for
\* a validated configuration that differs from the tracked one in one
\* attribute.
OneAttributeUpdate ==
    /\ last.op = "Update"
    /\ Cardinality(last.changed) = 1
    /\ kind = "ta" => Len(Split(last.idBefore)) = 2 /\ ValidJson(last.d.policy)

\* C7: an Update of a virtual node for a change of spec alone issues one
\* UpdateVirtualNode call and no tag-update call, and for a change of
\* tags_all alone one tag-update call and no UpdateVirtualNode call; an
\* Update of a Transfer Access for a change of one attribute issues one
\* UpdateAccess call in which the changed attribute is the only field
\* populated besides server id and external id.
UpdateMinimality ==
    OneAttributeUpdate =>
        LET a == CHOOSE x \in last.changed : TRUE IN
        IF kind = "vn"
        THEN /\ Cardinality(CallsOf("UpdateVirtualNode")) = (IF a = "spec" THEN 1 ELSE 0)
             /\ Cardinality(CallsOf("UpdateTags")) = (IF a = "tags_all" THEN 1 ELSE 0)
        ELSE /\ Cardinality(CallsOf("UpdateAccess")) = 1
             /\ a \in TAOptional
             /\ \A i \in CallsOf("UpdateAccess") :
                   DOMAIN last.calls[i].fields = {WireField(a)}

\* The attributes a resource's identity is built from.
IdentityAttrs(k) ==
    IF k = "vn" THEN {"name", "mesh_name", "mesh_owner"} ELSE {"server_id", "external_id"}

\* C8: a change to an attribute the identity is built from (name, mesh_name
\* and mesh_owner of a virtual node; server_id and external_id of a
\* Transfer Access) never reaches Update.
IdentityImmutable ==
    last.op = "Update" => last.changed \cap IdentityAttrs(kind) = {}

\* The positions of the separator in a reference.
Separators(s) == {i \in DOMAIN s : s[i] = "/"}

\* C9: the import of a virtual node with a reference of exactly two
\* components issues one describe call for (mesh, name) = the two
\* components, and on success tracks them; with a reference of one
\* component, or of three or more, it fails with the wrong-format error,
\* issues no call and tracks nothing.
ImportFormat ==
    (kind = "vn" /\ last.op = "Import") =>
        LET sep == Separators(last.arg) IN
        IF Cardinality(sep) = 1
        THEN LET i == CHOOSE x \in sep : TRUE
                 mesh == SubSeq(last.arg, 1, i - 1)
                 name == SubSeq(last.arg, i + 1, Len(last.arg))
             IN  /\ Len(last.calls) = 1
                 /\ last.calls[1].api = "DescribeVirtualNode"
                 /\ last.calls[1].key = <<mesh, name>>
                 /\ last.err # "WrongFormat"
                 /\ last.err = "none" =>
                        /\ last.d.id # <<>>
                        /\ last.d.mesh_name = mesh
                        /\ last.d.name = name
        ELSE /\ last.err = "WrongFormat"
             /\ last.calls = <<>>
             /\ last.d.id = <<>>
             /\ d.id = <<>>

\* An import with a reference of three components has failed before any
\* call, while the remote holds a virtual node.
ImportFormatWitness ==
    /\ kind = "vn"
    /\ last.op = "Import"
    /\ Cardinality(Separators(last.arg)) = 2
    /\ remote # <<>>
    /\ last.err = "WrongFormat"
    /\ last.calls = <<>>
    /\ d.id = <<>>

\* An import with a reference of two components has found the virtual node
\* and tracks it.
ImportFormatProceeds ==
    /\ kind = "vn"
    /\ last.op = "Import"
    /\ Cardinality(Separators(last.arg)) = 1
    /\ last.err = "none"
    /\ d.id = Uid
    /\ d.mesh_name = <<"a">>
    /\ d.name = <<"b">>

\* C10: the import of a Transfer Access with a reference that has not
\* exactly two components fails, and the reference does not become the
\* tracked identity.
ImportValidatesReference ==
    (kind = "ta" /\ last.op = "Import" /\ Cardinality(Separators(last.arg)) # 1) =>
        last.err # "none" /\ last.d.id = <<>>

\* The two components of a reference that holds one separator.
Components(s) ==
    LET i == CHOOSE x \in Separators(s) : TRUE
    IN  <<SubSeq(s, 1, i - 1), SubSeq(s, i + 1, Len(s))>>

\* C11: the import of a virtual node with a well-formed reference issues
\* exactly one describe call, keyed by the (mesh, name) of the reference.
\* When the call finds the object, the identity is the uid of the response,
\* which is the uid the remote object carries since its creation, and name
\* and mesh_name are those of the response; when the call fails, Import
\* returns its error and tracks nothing.
ImportSuccessPath ==
    (kind = "vn" /\ last.op = "Import" /\ Cardinality(Separators(last.arg)) = 1) =>
        /\ Len(last.calls) = 1
        /\ last.calls[1].api = "DescribeVirtualNode"
        /\ last.calls[1].key = Components(last.arg)
        /\ IF last.calls[1].ans = "Found"
           THEN LET vn == last.calls[1].obj[1] IN
                /\ last.err = "none"
                /\ last.d.id = vn.uid
                /\ last.d.id = remote[1].uid
                /\ last.d.name = vn.name
                /\ last.d.mesh_name = vn.mesh
                /\ d = last.d
           ELSE /\ last.err = ErrOf(last.calls[1].ans)
                /\ last.err # "none"
                /\ last.d.id = <<>>
                /\ d = Empty(kind)

\* An import has found the virtual node a Create made and tracks it under
\* its uid.
ImportSuccessPathWitness ==
    /\ kind = "vn"
    /\ last.op = "Import"
    /\ Len(last.calls) = 1
    /\ last.calls[1].ans = "Found"
    /\ last.arg = Join(<<remote[1].mesh, remote[1].name>>)
    /\ d.id = remote[1].uid
    /\ d.id # last.arg

\* An import whose describe call failed tracks nothing.
ImportSuccessPathFailure ==
    /\ kind = "vn"
    /\ last.op = "Import"
    /\ Len(last.calls) = 1
    /\ last.calls[1].ans = "Error"
    /\ remote # <<>>
    /\ d = Empty(kind)

CreateApis == {"CreateVirtualNode", "CreateAccess"}

\* The last handler was a Create for a validated configuration.
ValidatedCreate ==
    last.op = "Create" /\ (kind = "ta" => ValidJson(last.d.policy))

\* C12: Create, for a validated configuration, issues exactly one create
\* call, as its first call.  When that call fails, Create returns an error,
\* issues no other call and leaves the identity unset.  When it succeeds,
\* the identity is set whatever the Read does afterwards: to the uid of the
\* created virtual node, or to server id and external id of the create
\* request joined by the separator; and the lookup of the Read of a
\* Transfer Access is keyed by that identity.
CreateOrdering ==
    ValidatedCreate =>
        /\ CallsOf("CreateVirtualNode") \cup CallsOf("CreateAccess") = {1}
        /\ IF last.calls[1].ans # "Ok"
           THEN /\ last.err # "none"
                /\ Len(last.calls) = 1
                /\ last.d.id = <<>>
                /\ d.id = <<>>
           ELSE /\ last.d.id = IF kind = "vn" THEN remote[1].uid
                                              ELSE Join(last.calls[1].key)
                /\ d.id = last.d.id
                /\ kind = "ta" =>
                       \A i \in CallsOf("DescribeAccess") :
                           last.calls[i].key = last.calls[1].key

\* A Create whose create call failed has returned an error after that one
\* call, with the identity unset.
CreateOrderingWitness ==
    /\ last.op = "Create"
    /\ Len(last.calls) = 1
    /\ last.calls[1].api \in CreateApis
    /\ last.calls[1].ans = "Error"
    /\ last.err = "Create"
    /\ d.id = <<>>

\* A Create of a Transfer Access whose create call succeeded has the
\* identity set although its Read failed.
CreateOrderingIdentitySet ==
    /\ kind = "ta"
    /\ last.op = "Create"
    /\ Len(last.calls) = 2
    /\ last.calls[1].ans = "Ok"
    /\ last.calls[2].ans = "Error"
    /\ d.id = Join(<<d.server_id, d.external_id>>)

\* The create call of the last handler, a Create, succeeded.
CreatedRemotely ==
    /\ last.op = "Create"
    /\ Len(last.calls) >= 1
    /\ last.calls[1].api \in CreateApis
    /\ last.calls[1].ans = "Ok"

\* The Read of the last handler ran to its end: a lookup found the object,
\* not with status DELETED, and for a virtual node the tag listing that
\* follows succeeded; nothing came after.
ReadCompleted ==
    LET n == Len(last.calls) IN
    IF kind = "ta" THEN n >= 1 /\ LookupAnswered(n, "Found")
    ELSE /\ n >= 2
         /\ last.calls[n].api = "ListTags"
         /\ last.calls[n].ans = "Ok"
         /\ LookupAnswered(n - 1, "Found")
         /\ last.calls[n - 1].obj[1].status # VirtualNodeStatusCodeDeleted

\* C13: after a successful create call, Create returns an error whenever
\* its Read does not run to its end (remote error, not-found, timeout,
\* cancellation, deleted status, empty response, identity that does not
\* parse), and on every path the identity set after the create call is
\* still set when Create returns.
PartialCreate ==
    CreatedRemotely =>
        /\ last.d.id # <<>>
        /\ d.id = last.d.id
        /\ last.err = "none" <=> ReadCompleted

\* A Create whose Read met an empty response has failed with the identity
\* set.
PartialCreateWitness ==
    /\ CreatedRemotely
    /\ kind = "vn"
    /\ LookupAnswered(Len(last.calls), "Empty")
    /\ last.err = "EmptyResponse"
    /\ d.id = Uid

\* The failures of the Read inside Create, each with the identity set.
PartialCreateRemoteError ==
    CreatedRemotely /\ last.err = "Error" /\ d.id # <<>>
PartialCreateNotFound ==
    CreatedRemotely /\ kind = "ta" /\ last.err = "NotFound" /\ d.id # <<>>
PartialCreateTimeout ==
    CreatedRemotely /\ last.loop = "hang" /\ last.again /\ last.err # "none" /\ d.id # <<>>
PartialCreateDeleted ==
    CreatedRemotely /\ last.err = "DeletedAfterCreation" /\ d.id # <<>>
PartialCreateTags ==
    CreatedRemotely /\ last.err = "ListTags" /\ d.id # <<>>

UpdateApis == {"UpdateVirtualNode", "UpdateTags", "UpdateAccess"}

\* The calls of the last handler that change the remote object on behalf
\* of an Update, and those its Read makes.
UpdateCalls == {i \in DOMAIN last.calls : last.calls[i].api \in UpdateApis}
ReadCalls ==
    {i \in DOMAIN last.calls : last.calls[i].api \in LookupApis \cup {"ListTags"}}

\* C14: in an Update every call of the Read comes after every update call,
\* and an update call that fails is the last call: Update returns an error
\* without a further update call and without the Read.  For the virtual
\* node the spec update comes before the tag update.
UpdateOrdering ==
    last.op = "Update" =>
        /\ \A i \in UpdateCalls, j \in ReadCalls : i < j
        /\ \A i \in UpdateCalls :
              last.calls[i].ans # "Ok" => i = Len(last.calls) /\ last.err # "none"
        /\ \A i \in CallsOf("UpdateVirtualNode"), j \in CallsOf("UpdateTags") : i < j
        /\ ReadCalls # {} => \A i \in UpdateCalls : last.calls[i].ans = "Ok"

\* An Update of a virtual node whose spec update succeeded and whose tag
\* update failed has returned an error without a Read.
UpdateOrderingWitness ==
    /\ kind = "vn"
    /\ last.op = "Update"
    /\ Len(last.calls) = 2
    /\ last.calls[1].api = "UpdateVirtualNode"
    /\ last.calls[1].ans = "Ok"
    /\ last.calls[2].api = "UpdateTags"
    /\ last.calls[2].ans = "Error"
    /\ last.err = "UpdateTags"

\* An Update of a Transfer Access whose update call failed has returned an
\* error without a Read.
UpdateOrderingAccess ==
    /\ kind = "ta"
    /\ last.op = "Update"
    /\ Len(last.calls) = 1
    /\ last.calls[1].api = "UpdateAccess"
    /\ last.calls[1].ans = "Error"
    /\ last.err = "Update"

\* An Update of a virtual node whose spec update failed has issued no
\* tag update although the tags differ.
UpdateOrderingSpecFails ==
    /\ kind = "vn"
    /\ last.op = "Update"
    /\ last.changed = {"spec", "tags_all"}
    /\ Len(last.calls) = 1
    /\ last.calls[1].api = "UpdateVirtualNode"
    /\ last.err = "Update"

\* An Update whose update calls all succeeded has gone on to the Read.
UpdateOrderingReads ==
    /\ last.op = "Update"
    /\ Cardinality(UpdateCalls) = 2
    /\ ReadCalls # {}

\* The delete calls of the last handler.
DeleteCalls == CallsOf("DeleteVirtualNode") \cup CallsOf("DeleteAccess")

DeleteWithoutCall ==
    /\ kind = "ta"
    /\ last.op = "Delete"
    /\ last.calls = <<>>
    /\ last.err = "ParseID"
    /\ remote # <<>>

\* The i-th call of the last handler is a call of the Read (describe,
\* lookup or tag listing) that met a remote error other than not-found.
ReadErrorAt(i) ==
    /\ last.calls[i].api \in LookupApis \cup {"ListTags"}
    /\ last.calls[i].ans = "Error"

\* C16: when a call of a Read (on its own, or inside Create or Update)
\* meets a remote error other than not-found, the handler returns an error
\* and that call is its last: the polling loop does not go on after it.
\* The identity is not cleared: it is the one tracked before, or the one
\* Create has just set.
ReadErrorsSurface ==
    \A i \in DOMAIN last.calls :
        (last.op \in {"Create", "Read", "Update"} /\ ReadErrorAt(i)) =>
            /\ last.err \in {"Error", "ListTags"}
            /\ i = Len(last.calls)
            /\ last.loop \notin {"window", "cancel"}
            /\ last.d.id # <<>>
            /\ last.op # "Create" => last.d.id = last.idBefore

\* The Read of a new virtual node polled through a not-found answer, met a
\* remote error and returned it, with the identity set.
ReadErrorsSurfaceWitness ==
    /\ kind = "vn"
    /\ last.op = "Create"
    /\ Len(last.calls) = 3
    /\ LookupAnswered(2, "NotFound")
    /\ ReadErrorAt(3)
    /\ last.err = "Error"
    /\ d.id = Uid

\* The tag listing of the Read of a tracked virtual node failed.
ReadErrorsSurfaceTags ==
    /\ kind = "vn"
    /\ last.op = "Read"
    /\ last.calls[Len(last.calls)].api = "ListTags"
    /\ ReadErrorAt(Len(last.calls))
    /\ last.err = "ListTags"
    /\ d.id = last.idBefore

\* The lookup of the Read of a tracked Transfer Access failed.
ReadErrorsSurfaceAccess ==
    /\ kind = "ta"
    /\ last.op = "Read"
    /\ Len(last.calls) = 1
    /\ ReadErrorAt(1)
    /\ last.err = "Error"
    /\ d.id = last.idBefore
    /\ d.id # <<>>

\* The lookups of the last handler.
Lookups == {i \in DOMAIN last.calls : last.calls[i].api \in LookupApis}

\* C17: the number of describe calls of one handler is bounded: the polls
\* of the Read of a new virtual node are at most those that fit into the
\* propagation window, also when every one answers not-found; a describe
\* call follows the polling loop only when the first one did not answer
\* within the window, and then it is the only one.  A Read of a resource
\* that is not new does not poll, a Transfer Access is looked up at most
\* once, and no other remote operation is called twice by one handler.
BoundedRetry ==
    /\ Cardinality(Lookups) <= (IF last.again THEN 2 ELSE MaxPolls)
    /\ last.loop = "window" => LookupAnswered(Len(last.calls), "NotFound")
    /\ ~last.isNew => Cardinality(Lookups) <= (IF last.again THEN 2 ELSE 1)
    /\ kind = "ta" => Cardinality(Lookups) <= 1
    /\ \A i, j \in DOMAIN last.calls :
          (last.calls[i].api = last.calls[j].api /\ i # j) =>
              last.calls[i].api = "DescribeVirtualNode"

\* The Read of a new virtual node has polled as often as fits into the
\* window, every answer was not-found, and it has stopped.
BoundedRetryWitness ==
    /\ kind = "vn"
    /\ last.isNew
    /\ last.loop = "window"
    /\ Cardinality(Lookups) = MaxPolls
    /\ \A i \in Lookups : last.calls[i].ans = "NotFound"
    /\ Len(last.calls) = MaxPolls + 1

\* C18: when the context is cancelled while the Read of a virtual node is
\* polling, the polling stops there: every describe call issued was a poll
\* answered not-found, they are fewer than fit into the window, no
\* describe call follows the loop and no other call is made.  Read returns
\* an error (the last not-found, or the cancellation when no poll had
\* answered) and does not clear the identity.
Cancellation ==
    last.loop = "cancel" =>
        /\ kind = "vn"
        /\ last.err \in {"NotFound", "Canceled"}
        /\ last.err = "Canceled" <=> Lookups = {}
        /\ ~last.again
        /\ \A i \in Lookups : last.calls[i].ans = "NotFound"
        /\ Cardinality(Lookups) < MaxPolls
        /\ CallsOf("ListTags") = {}
        /\ last.d.id # <<>>

\* The Read of a new virtual node was cancelled after a poll answered
\* not-found: Create has failed after that one describe call.
CancellationWitness ==
    /\ kind = "vn"
    /\ last.op = "Create"
    /\ last.loop = "cancel"
    /\ Len(last.calls) = 2
    /\ LookupAnswered(2, "NotFound")
    /\ last.err = "NotFound"
    /\ d.id = Uid

\* The remote operations that read.
ReadApis == LookupApis \cup {"ListTags"}

\* C19: a Read issues only describe, lookup and tag-listing calls, and so
\* do the Reads that end Create and Update after their create and update
\* calls; a Read leaves the remote object as it was, and leaves the
\* identity as it was or clears it.
ReadOnlyRead ==
    /\ [](/\ last.op = "Read" =>
                \A i \in DOMAIN last.calls : last.calls[i].api \in ReadApis
          /\ last.op \in {"Create", "Update"} =>
                \A i \in DOMAIN last.calls :
                    last.calls[i].api \in ReadApis \cup CreateApis \cup UpdateApis
          /\ last.op = "Create" =>
                \A i \in DOMAIN last.calls :
                    last.calls[i].api \in CreateApis => i = 1)
    /\ [][(last'.op = "Read" /\ runs' = runs + 1) =>
              /\ remote' = remote
              /\ last'.d.id \in {d.id, <<>>}]_vars

\* A Read of a tracked virtual node has run to its end, with a describe
\* call and a tag listing, and the remote object is there.
ReadOnlyReadWitness ==
    /\ kind = "vn"
    /\ last.op = "Read"
    /\ ReadCompleted
    /\ remote # <<>>
    /\ d.id = last.idBefore

\* The same for a Transfer Access.
ReadOnlyReadAccess ==
    /\ kind = "ta"
    /\ last.op = "Read"
    /\ ReadCompleted
    /\ remote # <<>>
    /\ d.id = last.idBefore

\* The last handler observed the absence of the remote object: a lookup
\* answered not-found, or found it with status DELETED.
ObservedAbsence ==
    \E i \in Lookups :
        \/ last.calls[i].ans = "NotFound"
        \/ /\ last.calls[i].ans = "Found"
           /\ kind = "vn"
           /\ last.calls[i].obj[1].status = VirtualNodeStatusCodeDeleted

\* C20: a handler leaves the identity set where it was unset only when it
\* is a Create whose create call succeeded or an Import that succeeded; it
\* leaves the identity unset where it was set only when it is a Read, or
\* the Read that ends an Update, of a resource that is not new and has
\* observed not-found or status DELETED; in every other case Read, Update
\* and Delete leave the identity as it was.
IdentityLifecycle ==
    last.op # "none" =>
        /\ (last.idBefore = <<>> /\ last.d.id # <<>>) =>
               \/ CreatedRemotely
               \/ last.op = "Import" /\ last.err = "none"
        /\ (last.idBefore # <<>> /\ last.d.id = <<>>) =>
               OnExisting /\ ObservedAbsence /\ last.err = "none"
        /\ last.op \in {"Read", "Update", "Delete"} =>
               last.d.id \in {last.idBefore, <<>>}
        /\ last.op \in {"Create", "Import"} => last.idBefore = <<>>
        /\ last.op = "Delete" => last.d.id = last.idBefore

\* An Update of a tracked virtual node whose Read found the status DELETED
\* has cleared the identity.
IdentityLifecycleWitness ==
    /\ kind = "vn"
    /\ last.op = "Update"
    /\ last.idBefore # <<>>
    /\ ObservedAbsence
    /\ last.d.id = <<>>
    /\ d.id = <<>>
    /\ remote # <<>>

\* Identities that went from unset to set, by Create and by Import.
IdentityLifecycleCreated ==
    CreatedRemotely /\ last.idBefore = <<>> /\ d.id # <<>> /\ last.err # "none"
IdentityLifecycleImported ==
    last.op = "Import" /\ kind = "ta" /\ last.idBefore = <<>> /\ d.id # <<>>

\* C21: a Read of a Transfer Access leaves role as it was tracked before
\* the Read, whatever the remote holds; and after a Create the tracked
\* role is the one of the create request, not one read back.
WriteOnlyRole ==
    /\ [](CreatedRemotely /\ kind = "ta" =>
              last.d.role = IF "Role" \in DOMAIN last.calls[1].fields
                            THEN last.calls[1].fields.Role ELSE "")
    /\ [][(kind = "ta" /\ last'.op = "Read" /\ runs' = runs + 1) =>
              last'.d.role = d.role]_vars

\* A Read of a tracked Transfer Access ran to its end and the tracked role
\* is not the one the remote returned.
WriteOnlyRoleWitness ==
    /\ kind = "ta"
    /\ last.op = "Read"
    /\ ReadCompleted
    /\ last.calls[1].obj[1].Role # d.role
    /\ d.role = "r"

\* The last handler was a Create or an Update of a Transfer Access that had
\* to send a policy which does not normalise as JSON.
InvalidPolicyToSend ==
    /\ kind = "ta"
    /\ ~ValidJson(last.d.policy)
    /\ \/ last.op = "Create" /\ GetOk(last.d, "policy")
       \/ last.op = "Update" /\ "policy" \in last.changed

\* C22: a Create or an Update of a Transfer Access whose policy cannot be
\* normalised as JSON returns an error, issues no remote call, and leaves
\* the tracked identity as it was before the handler ran.
ValidationBeforeCalls ==
    InvalidPolicyToSend =>
        /\ last.err # "none"
        /\ last.calls = <<>>
        /\ last.d.id = last.idBefore
        /\ (last.op = "Create" \/ AccessParseOk(last.idBefore)) => last.err = "Policy"

\* An Update of a tracked Transfer Access was stopped by its policy.
ValidationBeforeCallsWitness ==
    /\ InvalidPolicyToSend
    /\ last.op = "Update"
    /\ last.err = "Policy"
    /\ d.id # <<>>
    /\ remote # <<>>

\* A Create was stopped by its policy: nothing is tracked, nothing exists.
ValidationBeforeCallsCreate ==
    /\ InvalidPolicyToSend
    /\ last.op = "Create"
    /\ last.err = "Policy"
    /\ d.id = <<>>
    /\ remote = <<>>

\* The optional attributes the create mapping guards with d.GetOk.
CreateOptional ==
    {"home_directory", "home_directory_mappings", "policy", "posix_profile", "role"}

\* The last handler was a Create of a Transfer Access that issued its
\* create call.
AccessCreateCalled ==
    /\ kind = "ta"
    /\ last.op = "Create"
    /\ Len(last.calls) >= 1
    /\ last.calls[1].api = "CreateAccess"

\* C23, first half: an optional attribute absent from the configuration is
\* omitted from the create request.
AbsentOmitted ==
    AccessCreateCalled =>
        \A a \in CreateOptional \ last.d.explicit :
            WireField(a) \notin DOMAIN last.calls[1].fields

\* C23: in the create request of a Transfer Access an optional attribute is
\* populated exactly when the configuration writes it down, so that writing
\* it down with its zero value is distinguishable from omitting it.
OmissionVersusExplicitZero ==
    AccessCreateCalled =>
        \A a \in CreateOptional :
            a \in last.d.explicit <=> WireField(a) \in DOMAIN last.calls[1].fields

\* A create request was issued for a configuration that writes down
\* home_directory = "".
ExplicitZeroCreate ==
    /\ AccessCreateCalled
    /\ "home_directory" \in last.d.explicit
    /\ last.d.home_directory = ""

\* The tracked attributes that are not computed and that Read sets.
RoundTripAttrs ==
    IF kind = "vn" THEN {"name", "mesh_name", "spec"}
    ELSE {"external_id", "server_id", "home_directory", "home_directory_mappings",
          "home_directory_type", "posix_profile"}

\* The last handler was a Create whose create call succeeded and whose
\* Read ran to its end.
CreatedAndRead == CreatedRemotely /\ ReadCompleted /\ last.err = "none"

\* C24: after a Create whose Read ran to its end against the remote object
\* the create call stored, every non-computed tracked attribute equals the
\* attribute of the desired configuration.
RoundTrip ==
    CreatedAndRead => \A a \in RoundTripAttrs : last.d[a] = last.arg[a] /\ d[a] = last.arg[a]

\* A Transfer Access with a home directory went through Create and Read.
RoundTripWitness ==
    /\ CreatedAndRead
    /\ kind = "ta"
    /\ last.arg.home_directory = "h"
    /\ remote[1].HomeDirectory = "h"
    /\ d.home_directory = "h"

\* A Transfer Access with a POSIX profile, a Transfer Access that writes down
\* home_directory = "", and a virtual node went through Create and Read.
RoundTripBlock ==
    CreatedAndRead /\ kind = "ta" /\ last.arg.posix_profile = <<"px">>
RoundTripExplicitZero ==
    CreatedAndRead /\ kind = "ta" /\ last.arg.explicit = {"home_directory"}
RoundTripVirtualNode ==
    CreatedAndRead /\ kind = "vn" /\ last.arg.spec = "s2" /\ d.spec = "s2"

----------------------------------------------------------------------------
(* Two instances side by side.  The host runs the handlers of two          *)
(* resources of one kind in any order; each handler is given the resource  *)
(* data of its own instance and the shared context, and the remote service *)
(* executes the calls it issues against everything the service holds.      *)

Instances == 1..2

\* The desired configurations of each instance: the two instances differ in
\* their natural key (mesh, or external id), and each has a second
\* configuration to be updated to.
PairConfigs(i) ==
    IF kind = "vn"
    THEN LET base == IF i = 1 THEN VNBase ELSE [VNBase EXCEPT !.mesh_name = <<"b">>]
         IN  {base, [base EXCEPT !.spec = "s2"]}
    ELSE LET base == IF i = 1 THEN TABase ELSE [TABase EXCEPT !.external_id = <<"a">>]
         IN  {base, [base EXCEPT !.home_directory = "h", !.explicit = {"home_directory"}]}

\* The natural key the remote service knows an instance under.
NaturalKey(i) ==
    LET c == CHOOSE c \in PairConfigs(i) : TRUE
    IN  IF kind = "vn" THEN <<c.mesh_name, c.name>> ELSE <<c.server_id, c.external_id>>

ObjKey(o) == IF kind = "vn" THEN <<o.mesh, o.name>> ELSE <<o.ServerId, o.ExternalId>>

\* The service gives every virtual node a uid of its own.
OwnUid(key) == Uid \o key[1] \o key[2]
Qualified(o) == IF kind = "vn" THEN [o EXCEPT !.uid = OwnUid(ObjKey(o))] ELSE o

\* What the service holds under a key: at most one object.
Slice(st, key) ==
    LET at == {o \in st : ObjKey(o) = key}
    IN  IF at = {} THEN <<>> ELSE <<CHOOSE o \in at : TRUE>>

\* The service executes one call against everything it holds: a successful
\* create, update or delete call acts on the object the call addresses.
Serve(st, c) ==
    LET at == {o \in st : ObjKey(o) = c.key}
        rest == st \ at
    IN  IF c.ans # "Ok" THEN st
        ELSE CASE c.api = "CreateVirtualNode" -> rest \cup {Qualified(VNStored(c))}
               [] c.api = "CreateAccess" -> rest \cup {TAStored(TAUnset, c.key, c.fields)}
               [] c.api = "UpdateVirtualNode" ->
                      rest \cup {[o EXCEPT !.spec = c.fields.spec] : o \in at}
               [] c.api = "UpdateAccess" -> rest \cup {TAStored(o, c.key, c.fields) : o \in at}
               [] c.api = "UpdateTags" ->
                      {IF <<o.arn>> = c.key THEN [o EXCEPT !.tags = c.fields.new] ELSE o :
                          o \in st}
               [] c.api \in {"DeleteVirtualNode", "DeleteAccess"} -> rest
               [] OTHER -> st

RECURSIVE ServeAll(_, _)
ServeAll(st, calls) ==
    IF calls = <<>> THEN st ELSE ServeAll(Serve(st, Head(calls)), Tail(calls))

\* A handler has run for instance i.  The host keeps the resource data the
\* handler left, and nothing of a resource whose identity is unset or whose
\* Delete succeeded; the service has executed the calls.  The record keeps
\* what the handler, given only the object of its own instance, leaves of
\* that object (rem).
PairFinish(op, i, r) ==
    LET gone == r.d.id = <<>> \/ (op = "Delete" /\ r.err = "none")
        rd == IF kind = "vn" THEN [r.d EXCEPT !.id = OwnUid(NaturalKey(i))] ELSE r.d
    IN  /\ runs < PairMaxRuns
        /\ runs' = runs + 1
        /\ insts' = [insts EXCEPT ![i] = IF gone THEN Empty(kind) ELSE rd]
        /\ store' = ServeAll(store, r.calls)
        /\ ran' = [op |-> op, inst |-> i, prev |-> ran.inst, calls |-> r.calls,
                   err |-> r.err, d |-> r.d,
                   rem |-> IF r.rem = <<>> THEN <<>> ELSE <<Qualified(r.rem[1])>>]
        /\ UNCHANGED <<kind, d, remote, last, meta, KeyPairVars, PageVars>>

InitPair ==
    /\ kind \in {"vn", "ta"}
    /\ d = Empty(kind)
    /\ remote = <<>>
    /\ last = Idle(d)
    /\ runs = 0
    /\ insts = [i \in Instances |-> Empty(kind)]
    /\ store = {}
    /\ meta = Meta
    /\ ran = [op |-> "none", inst |-> 0, prev |-> 0, calls |-> <<>>, err |-> "none",
              d |-> Empty(kind), rem |-> <<>>]
    /\ KeyPairIdle
    /\ PagesIdle

PairCreate ==
    \E i \in Instances :
        /\ insts[i].id = <<>>
        /\ \E c \in PairConfigs(i) :
              LET rem == Slice(store, NaturalKey(i)) IN
              \E createAns \in MutateAnswers(rem = <<>>) :
                 IF kind = "vn"
                 THEN \E in \in ReadInputs(TRUE, TRUE) :
                         /\ createAns # "Ok" => in = CHOOSE x \in ReadInputs(TRUE, TRUE) : TRUE
                         /\ PairFinish("Create", i,
                                resourceVirtualNodeCreate(VNPlanned(VNEmpty, c), rem,
                                    createAns, in.script, in.st, in.extra, in.tagsAns))
                 ELSE \E ans \in LookupAnswers(TRUE, TRUE) :
                         PairFinish("Create", i,
                             resourceAccessCreate(TAPlanned(TAEmpty, c), rem, createAns, ans))

PairRead ==
    \E i \in Instances :
        /\ insts[i].id # <<>>
        /\ LET rem == Slice(store, NaturalKey(i)) IN
           IF kind = "vn"
           THEN \E in \in ReadInputs(rem # <<>>, FALSE) :
                   PairFinish("Read", i,
                       resourceVirtualNodeRead(insts[i], FALSE, rem, in.script, in.st,
                                               in.extra, in.tagsAns))
           ELSE \E ans \in LookupAnswers(rem # <<>>, FALSE) :
                   PairFinish("Read", i, resourceAccessRead(insts[i], FALSE, rem, ans))

PairUpdate ==
    \E i \in Instances :
        /\ insts[i].id # <<>>
        /\ \E c \in PairConfigs(i) :
              LET rem == Slice(store, NaturalKey(i))
                  found == rem # <<>>
              IN  IF kind = "vn"
                  THEN LET rd == VNPlanned(insts[i], c) IN
                       /\ HasChange(insts[i], rd, "spec")
                       /\ \E updAns \in MutateAnswers(found), in \in ReadInputs(found, FALSE) :
                             PairFinish("Update", i,
                                 resourceVirtualNodeUpdate(insts[i], rd, rem, updAns, "Error",
                                     in.script, in.st, in.extra, in.tagsAns))
                  ELSE LET rd == TAPlanned(insts[i], c) IN
                       /\ HasChange(insts[i], rd, "home_directory")
                       /\ \E updAns \in MutateAnswers(found),
                             ans \in LookupAnswers(found, FALSE) :
                             PairFinish("Update", i,
                                 resourceAccessUpdate(insts[i], rd, rem, updAns, ans))

PairDelete ==
    \E i \in Instances :
        /\ insts[i].id # <<>>
        /\ LET rem == Slice(store, NaturalKey(i)) IN
           \E delAns \in DeleteAnswers(rem # <<>>) :
              PairFinish("Delete", i,
                  IF kind = "vn" THEN resourceVirtualNodeDelete(insts[i], rem, delAns)
                  ELSE resourceAccessDelete(insts[i], rem, delAns))

NextPair ==
    \/ PairCreate
    \/ PairRead
    \/ PairUpdate
    \/ PairDelete

SpecPair == InitPair /\ [][NextPair]_vars

\* The call addresses the object of instance i: by its natural key, or, for
\* the tag operations, by its ARN.
AddressesOwn(c, i) ==
    IF c.api \in {"UpdateTags", "ListTags"}
    THEN c.key = <<Arn(NaturalKey(i)[1], NaturalKey(i)[2])>>
    ELSE c.key = NaturalKey(i)

\* The objects the service holds for the instances other than i.
OfOthers(st, i) == {o \in st : ObjKey(o) # NaturalKey(i)}

----------------------------------------------------------------------------
(* Lightsail key pair.  The acceptance tests create a key pair from three  *)
(* configurations (name only; name and public_key; name and pgp_key) and   *)
(* from two that leave the name to the provider, and check which           *)
(* attributes the state holds afterwards.  The resource itself is modelled *)
(* as the tests exercise it: a key pair without public_key is generated by *)
(* the service, which returns the private key once; a key pair with        *)
(* public_key is imported.  An attribute that is not set holds "".         *)

KPAttrs ==
    {"id", "name", "name_prefix", "public_key", "pgp_key", "private_key",
     "encrypted_private_key", "encrypted_fingerprint", "arn", "fingerprint"}

KPEmpty == [a \in KPAttrs |-> ""]

\* testAccKeyPairConfig_basic, _imported, _encrypted and _prefixed.
KPNames == {[name |-> "k1", name_prefix |-> ""], [name |-> "k2", name_prefix |-> ""],
            [name |-> "", name_prefix |-> ""], [name |-> "", name_prefix |-> "cts"]}
KPKeys == {[public_key |-> "", pgp_key |-> ""], [public_key |-> "pk", pgp_key |-> ""],
           [public_key |-> "", pgp_key |-> "pgp"]}
KPConfigs == {n @@ k : n \in KPNames, k \in KPKeys}

KPPlanned(c) == [a \in KPAttrs |-> IF a \in DOMAIN c THEN c[a] ELSE ""]

\* The name of the key pair: the configured one, or one the provider
\* generates, with the configured prefix if there is one.
KeyPairName(rd) ==
    IF rd.name # "" THEN rd.name
    ELSE IF rd.name_prefix # "" THEN "cts-generated" ELSE "terraform-generated"

\* The key pair the service stores, and what it answers to a create call.
KPStored(name, publicKey) ==
    [name |-> name, arn |-> <<"arn", name>>, fingerprint |-> <<"fp", publicKey>>,
     publicKey |-> publicKey]
GeneratedPublicKey == "generated-public"
GeneratedPrivateKey == "generated-private"

\* Encryption of a value to a PGP key, and the fingerprint of that key.
EncryptValue(pgpKey, value) == <<"encrypted", pgpKey, value>>
PGPFingerprint(pgpKey) == <<"fingerprint", pgpKey>>

\* Read: looks the key pair up by the tracked identity; a not-found answer
\* clears the identity; otherwise sets arn, name and fingerprint.
resourceKeyPairRead(rd, rem, ans) ==
    LET call == Call("GetKeyPair", rd.id, "", NoFields, ans,
                     IF ans = "Found" THEN rem ELSE NoObj)
    IN  IF ans = "NotFound" THEN Result([rd EXCEPT !.id = ""], rem, <<call>>, "none", NoLoop)
        ELSE IF ans # "Found" THEN Result(rd, rem, <<call>>, "Error", NoLoop)
        ELSE Result([rd EXCEPT !.arn = rem[1].arn, !.name = rem[1].name,
                               !.fingerprint = rem[1].fingerprint],
                    rem, <<call>>, "none", NoLoop)

\* A Create that stores the plaintext private key even when a PGP key is
\* given.
KeyPairCreateKeepsPlaintext(rd, rem, createAns, ans) ==
    LET name == KeyPairName(rd) IN
    IF rd.public_key = ""
    THEN LET call == Call("CreateKeyPair", name, "", NoFields, createAns, NoObj) IN
         IF createAns # "Ok" THEN Result(rd, rem, <<call>>, "Create", NoLoop)
         ELSE
           LET rem1 == <<KPStored(name, GeneratedPublicKey)>>
               rd1 == [rd EXCEPT !.id = name, !.public_key = GeneratedPublicKey,
                                 !.private_key = GeneratedPrivateKey]
               rd2 == IF rd.pgp_key # ""
                      THEN [rd1 EXCEPT
                               !.encrypted_fingerprint = PGPFingerprint(rd.pgp_key),
                               !.encrypted_private_key =
                                   EncryptValue(rd.pgp_key, GeneratedPrivateKey)]
                      ELSE rd1
               r == resourceKeyPairRead(rd2, rem1, ans)
           IN  [r EXCEPT !.calls = <<call>> \o r.calls]
    ELSE LET call == Call("ImportKeyPair", name, "", [PublicKeyBase64 |-> rd.public_key],
                          createAns, NoObj) IN
         IF createAns # "Ok" THEN Result(rd, rem, <<call>>, "Create", NoLoop)
         ELSE LET r == resourceKeyPairRead([rd EXCEPT !.id = name],
                                           <<KPStored(name, rd.public_key)>>, ans)
              IN  [r EXCEPT !.calls = <<call>> \o r.calls]

\* Create: without public_key the service generates the key pair, and the
\* private key of the response is stored encrypted to the PGP key if one is
\* given, and in plaintext otherwise; with public_key the key is imported
\* and there is no private key.  Then Read.
resourceKeyPairCreate(rd, rem, createAns, ans) ==
    LET name == KeyPairName(rd) IN
    IF rd.public_key = ""
    THEN LET call == Call("CreateKeyPair", name, "", NoFields, createAns, NoObj) IN
         IF createAns # "Ok" THEN Result(rd, rem, <<call>>, "Create", NoLoop)
         ELSE
           LET rem1 == <<KPStored(name, GeneratedPublicKey)>>
               rd1 == [rd EXCEPT !.id = name, !.public_key = GeneratedPublicKey]
               rd2 == IF rd.pgp_key # ""
                      THEN [rd1 EXCEPT
                               !.encrypted_fingerprint = PGPFingerprint(rd.pgp_key),
                               !.encrypted_private_key =
                                   EncryptValue(rd.pgp_key, GeneratedPrivateKey)]
                      ELSE [rd1 EXCEPT !.private_key = GeneratedPrivateKey]
               r == resourceKeyPairRead(rd2, rem1, ans)
           IN  [r EXCEPT !.calls = <<call>> \o r.calls]
    ELSE LET call == Call("ImportKeyPair", name, "", [PublicKeyBase64 |-> rd.public_key],
                          createAns, NoObj) IN
         IF createAns # "Ok" THEN Result(rd, rem, <<call>>, "Create", NoLoop)
         ELSE LET r == resourceKeyPairRead([rd EXCEPT !.id = name],
                                           <<KPStored(name, rd.public_key)>>, ans)
              IN  [r EXCEPT !.calls = <<call>> \o r.calls]

\* Delete: one delete call for the tracked identity.
resourceKeyPairDelete(rd, rem, delAns) ==
    LET call == Call("DeleteKeyPair", rd.id, "", NoFields, delAns, NoObj)
    IN  IF delAns # "Ok" THEN Result(rd, rem, <<call>>, "Delete", NoLoop)
        ELSE Result(rd, <<>>, <<call>>, "none", NoLoop)

\* A handler has run on the key pair.  The host keeps the resource data the
\* handler left, and nothing of a key pair whose identity is unset or whose
\* Delete succeeded.
KPFinish(op, r, c) ==
    /\ runs < KeyPairMaxRuns
    /\ runs' = runs + 1
    /\ kp' = IF r.d.id = "" \/ (op = "Delete" /\ r.err = "none") THEN KPEmpty ELSE r.d
    /\ kpRemote' = r.rem
    /\ kpLast' = [op |-> op, calls |-> r.calls, err |-> r.err, d |-> r.d, cfg |-> c]
    /\ UNCHANGED <<kind, d, remote, last, PairVars, PageVars>>

InitKeyPair ==
    /\ kind = "kp"
    /\ d = <<>>
    /\ remote = <<>>
    /\ last = <<>>
    /\ runs = 0
    /\ PairIdle
    /\ PagesIdle
    /\ kp = KPEmpty
    /\ kpRemote = <<>>
    /\ kpLast = [op |-> "none", calls |-> <<>>, err |-> "none", d |-> KPEmpty,
                 cfg |-> KPPlanned(<<>>)]

KPCreate ==
    /\ kp.id = ""
    /\ \E c \in KPConfigs, createAns \in MutateAnswers(kpRemote = <<>>),
          ans \in {"Found", "NotFound", "Error"} :
          /\ createAns # "Ok" => ans = "Error"
          /\ KPFinish("Create", resourceKeyPairCreate(KPPlanned(c), kpRemote, createAns, ans),
                      KPPlanned(c))

KPRead ==
    /\ kp.id # ""
    /\ \E ans \in {"Error"} \cup (IF kpRemote # <<>> THEN {"Found"} ELSE {"NotFound"}) :
          KPFinish("Read", resourceKeyPairRead(kp, kpRemote, ans), kpLast.cfg)

KPDelete ==
    /\ kp.id # ""
    /\ \E delAns \in MutateAnswers(kpRemote # <<>>) :
          KPFinish("Delete", resourceKeyPairDelete(kp, kpRemote, delAns), kpLast.cfg)

NextKeyPair ==
    \/ KPCreate
    \/ KPRead
    \/ KPDelete

SpecKeyPair == InitKeyPair /\ [][NextKeyPair]_vars

\* The last handler was a Create of a key pair that succeeded.
KeyPairCreated == kpLast.op = "Create" /\ kpLast.err = "none" /\ kp.id # ""

SecretExposureBasic ==
    KeyPairCreated /\ kpLast.cfg.public_key = "" /\ kpLast.cfg.pgp_key = ""
        /\ kp.private_key = GeneratedPrivateKey
SecretExposureImported ==
    KeyPairCreated /\ kpLast.cfg.public_key = "pk" /\ kp.public_key = "pk"

\* The API operations that address a virtual node by mesh name, node name
\* and mesh owner.
NodeApis ==
    {"CreateVirtualNode", "DescribeVirtualNode", "UpdateVirtualNode", "DeleteVirtualNode"}

\* Every call of the handler that just ran, of the given operations,
\* addressed the node by the natural key and the owner given.
Addressed(calls, ops, apis, key, owner, op) ==
    op \in ops =>
        \A i \in 1..Len(calls) :
            calls[i].api \in apis => calls[i].key = key /\ calls[i].owner = owner

\* A handler runs on a tracked virtual node whose mesh_owner is set.
OnOwnedNode == kind = "vn" /\ runs' = runs + 1 /\ d.id # <<>> /\ d.mesh_owner # ""

\* C27, the part that holds: every call for a tracked virtual node carries
\* the tracked mesh name and node name, and the calls of Read and Update
\* carry the tracked mesh owner; the calls of a Create carry the mesh owner
\* of the configuration.
NaturalKeyHeld ==
    /\ [](kind = "vn" /\ last.op = "Create" =>
              Addressed(last.calls, {"Create"}, NodeApis,
                        <<last.arg.mesh_name, last.arg.name>>, last.arg.mesh_owner, last.op))
    /\ [][OnOwnedNode =>
              /\ Addressed(last'.calls, {"Read", "Update"}, NodeApis,
                           <<d.mesh_name, d.name>>, d.mesh_owner, last'.op)
              /\ \A i \in 1..Len(last'.calls) :
                     last'.calls[i].api \in NodeApis =>
                         last'.calls[i].key = <<d.mesh_name, d.name>>]_vars

\* C27: every call of Read, Update and Delete for a tracked virtual node
\* whose mesh_owner is set carries the tracked mesh name, node name and
\* mesh owner.
NaturalKeyConsistency ==
    [][OnOwnedNode =>
           Addressed(last'.calls, {"Read", "Update", "Delete"}, NodeApis,
                     <<d.mesh_name, d.name>>, d.mesh_owner, last'.op)]_vars

\* A Delete ran on a tracked virtual node with mesh_owner set.
OwnedNodeDeleted ==
    /\ kind = "vn"
    /\ last.op = "Delete"
    /\ last.d.mesh_owner = DefaultOwner
    /\ Len(last.calls) = 1
    /\ last.calls[1].owner = ""

----------------------------------------------------------------------------
(* WAF list-pages helpers (internal/service/waf/list_pages_gen.go).  The   *)
(* twelve generated helpers share one body: a loop that issues the list    *)
(* call with the caller's input struct, returns its error, hands the       *)
(* output to the callback, and writes the output's NextMarker into the     *)
(* input struct before the next round.  One round is two steps: the list   *)
(* call, and the callback with what follows it.                            *)

ListOps ==
    {"ListByteMatchSets", "ListGeoMatchSets", "ListIPSets", "ListRateBasedRules",
     "ListRegexMatchSets", "ListRegexPatternSets", "ListRuleGroups", "ListRules",
     "ListSizeConstraintSets", "ListSqlInjectionMatchSets", "ListWebACLs",
     "ListXssMatchSets"}

\* A NextMarker that is nil, and aws.StringValue, which reads nil as "".
NilMarker == "<nil>"
StringValue(p) == IF p = NilMarker THEN "" ELSE p

\* The marker the remote hands out for page k (k > 1), and the page a
\* request with a given marker is answered with.
Markers == <<"", "m2", "m3", "m4", "m5", "m6">>
PageAt(marker) == CHOOSE k \in 1..Len(Markers) : Markers[k] = StringValue(marker)

\* The output of a successful list call for page k of a listing of n pages
\* whose last page carries the marker end (nil or empty).
PageOutput(rem, k) ==
    [Items |-> k, NextMarker |-> IF k < rem.n THEN Markers[k + 1] ELSE rem.end]

\* The list calls a helper makes are capped, for a helper that would not
\* stop by itself.
MaxCalls == MaxPages + 2

\* Line 20: lastPage.
LastPage(output) == StringValue(output.NextMarker) = ""

\* A helper that goes on whatever the callback returns.
BreakOnLastPageOnly(cont, lastPage) == lastPage

\* Line 21: the loop is left when the callback returns false or the page
\* is the last one.
Break(cont, lastPage) == ~cont \/ lastPage

\* A helper that does not write the marker into the input struct.
NextInputUnchained(input, output) == input

\* Line 25: the input struct of the next round.
NextInput(input, output) == [input EXCEPT !.NextMarker = output.NextMarker]

\* A helper that hands the output of a failed call to the callback.
ReturnsNever(err) == FALSE

\* Lines 14-16: an error of the list call is returned.
ReturnsError(err) == err # "none"

\* The calls and the callback invocations of the log.
ListCalls == {i \in 1..Len(pgLog) : pgLog[i].ev = "call"}
Callbacks == {i \in 1..Len(pgLog) : pgLog[i].ev = "fn"}

InitPages ==
    /\ kind = "waf"
    /\ d = <<>>
    /\ remote = <<>>
    /\ last = <<>>
    /\ runs = 0
    /\ PairIdle
    /\ KeyPairIdle
    /\ pgRemote \in [op : ListOps, n : 1..MaxPages, end : {NilMarker, ""}]
    /\ pgInput \in [NextMarker : {NilMarker} \cup {Markers[k] : k \in 1..pgRemote.n},
                    Limit : {1, 2}]
    /\ pgOutput = <<>>
    /\ pgPc = "call"
    /\ pgLog = <<>>

\* Line 13, the list call succeeds: the remote answers with the page the
\* marker of the request stands for.
ListCallSucceeds ==
    /\ pgPc = "call"
    /\ Cardinality(ListCalls) < MaxCalls
    /\ LET out == PageOutput(pgRemote, PageAt(pgInput.NextMarker)) IN
       /\ ~ReturnsError("none")
       /\ pgOutput' = out
       /\ pgLog' = Append(pgLog, [ev |-> "call", op |-> pgRemote.op, req |-> pgInput,
                                  err |-> "none", out |-> out])
       /\ pgPc' = "fn"
    /\ UNCHANGED <<pgInput, pgRemote, kind, d, remote, last, runs, PairVars, KeyPairVars>>

\* Lines 13-16, the list call fails: the helper returns the error.
ListCallFails ==
    /\ pgPc = "call"
    /\ Cardinality(ListCalls) < MaxCalls
    /\ pgLog' = Append(pgLog, [ev |-> "call", op |-> pgRemote.op, req |-> pgInput,
                               err |-> "Error", out |-> <<>>])
    /\ IF ReturnsError("Error")
       THEN pgPc' = "returned Error" /\ UNCHANGED pgOutput
       ELSE pgPc' = "fn" /\ pgOutput' = [Items |-> 0, NextMarker |-> NilMarker]
    /\ UNCHANGED <<pgInput, pgRemote, kind, d, remote, last, runs, PairVars, KeyPairVars>>

\* Lines 20-25: the callback is invoked with the output and lastPage; the
\* helper returns nil when the loop is left, and chains the marker
\* otherwise.
InvokeCallback ==
    /\ pgPc = "fn"
    /\ \E cont \in BOOLEAN :
          LET lastPage == LastPage(pgOutput) IN
          /\ pgLog' = Append(pgLog, [ev |-> "fn", out |-> pgOutput, lastPage |-> lastPage,
                                     cont |-> cont])
          /\ IF Break(cont, lastPage)
             THEN pgPc' = "returned nil" /\ UNCHANGED pgInput
             ELSE pgPc' = "call" /\ pgInput' = NextInput(pgInput, pgOutput)
    /\ UNCHANGED <<pgOutput, pgRemote, kind, d, remote, last, runs, PairVars, KeyPairVars>>

NextPages ==
    \/ ListCallSucceeds
    \/ ListCallFails
    \/ InvokeCallback

SpecPages == InitPages /\ [][NextPages]_vars

\* The helper runs on: a list call that is due is made, and the callback
\* returns.
SpecPagesFair == SpecPages /\ WF_vars(NextPages)

\* The helper has returned.
Returned == pgPc \in {"returned nil", "returned Error"}

\* The list calls of the log that succeeded.
FetchedPages == {i \in ListCalls : pgLog[i].err = "none"}

\* C28: every callback invocation directly follows a successful list call
\* and is given its output, with lastPage true exactly when the NextMarker
\* of that output is nil or empty; every successful list call is followed
\* by its callback invocation before anything else; and a callback that
\* returned false, or was given the last page, is the end of the log, the
\* helper having returned nil.
CallbackProtocol ==
    /\ \A i \in Callbacks :
          /\ i > 1
          /\ pgLog[i - 1].ev = "call"
          /\ pgLog[i - 1].err = "none"
          /\ pgLog[i].out = pgLog[i - 1].out
          /\ pgLog[i].lastPage <=> pgLog[i].out.NextMarker \in {NilMarker, ""}
          /\ (~pgLog[i].cont \/ pgLog[i].lastPage) =>
                 i = Len(pgLog) /\ pgPc = "returned nil"
    /\ \A i \in FetchedPages :
          IF i = Len(pgLog) THEN pgPc = "fn" ELSE pgLog[i + 1].ev = "fn"

\* The callback returned false on the first of three pages: one list call,
\* one callback invocation, and the helper returned nil.
CallbackProtocolWitness ==
    /\ pgRemote.n = 3
    /\ Len(pgLog) = 2
    /\ pgLog[2].ev = "fn"
    /\ ~pgLog[2].cont
    /\ ~pgLog[2].lastPage
    /\ pgPc = "returned nil"

\* All three pages of a listing were handed to the callback in order, the
\* last one with an empty (not nil) NextMarker.
CallbackProtocolAllPages ==
    /\ pgRemote.n = 3
    /\ pgRemote.end = ""
    /\ Len(pgLog) = 6
    /\ \A k \in 1..3 : pgLog[2 * k].ev = "fn" /\ pgLog[2 * k].out.Items = k
    /\ pgLog[6].lastPage
    /\ pgLog[6].cont
    /\ pgPc = "returned nil"

\* C29: a failed list call is the end of the log, the helper having
\* returned its error: no callback invocation and no list call follows it;
\* and no step changes what the log already holds.
PaginationErrors ==
    /\ [](\A i \in ListCalls :
              pgLog[i].err # "none" => i = Len(pgLog) /\ pgPc = "returned Error")
    /\ [][Len(pgLog') >= Len(pgLog) /\ SubSeq(pgLog', 1, Len(pgLog)) = pgLog]_vars

\* The second list call failed after the callback was invoked for the first
\* page.
PaginationErrorsWitness ==
    /\ Len(pgLog) = 3
    /\ pgLog[2].ev = "fn"
    /\ pgLog[2].cont
    /\ pgLog[3].ev = "call"
    /\ pgLog[3].err = "Error"
    /\ pgPc = "returned Error"

\* The list call made before the i-th entry of the log.
PreviousCall(i) == CHOOSE j \in ListCalls : j < i /\ \A k \in ListCalls : k < i => k <= j

\* C30: the first list request is the caller's input struct as given; each
\* later request carries the NextMarker of the response before it and is
\* otherwise the same; the marker is written into the caller's struct and
\* nothing else of the struct changes; a listing of n pages takes at most n
\* list calls; the helper returns; and when it has returned, the callback
\* was invoked once for every successful list call.
MarkerChaining ==
    /\ [](/\ \A i \in ListCalls :
                /\ pgLog[i].op = pgRemote.op
                /\ i > 1 =>
                      /\ pgLog[i].req.NextMarker = pgLog[PreviousCall(i)].out.NextMarker
                      /\ pgLog[i].req.Limit = pgLog[PreviousCall(i)].req.Limit
          /\ (pgPc = "call" /\ pgLog # <<>>) =>
                 pgInput.NextMarker = pgLog[Len(pgLog)].out.NextMarker
          /\ Cardinality(ListCalls) <= pgRemote.n
          /\ Returned => Cardinality(Callbacks) = Cardinality(FetchedPages))
    /\ [][/\ pgInput'.Limit = pgInput.Limit
          /\ (pgLog = <<>> /\ pgLog' # <<>>) => pgLog'[1].req = pgInput]_vars
    /\ <>Returned

\* A listing of three pages was fetched from its start with three list
\* calls; the caller's input struct, given with a nil marker, now holds the
\* marker of the third page.
MarkerChainingWitness ==
    /\ pgRemote.n = 3
    /\ Returned
    /\ Cardinality(ListCalls) = 3
    /\ Cardinality(Callbacks) = 3
    /\ pgLog[1].req.NextMarker = NilMarker
    /\ pgLog[5].req.NextMarker = "m3"
    /\ pgInput.NextMarker = "m3"

\* A listing entered at its second page took two list calls.
MarkerChainingFromSecond ==
    /\ pgRemote.n = 3
    /\ Returned
    /\ Cardinality(ListCalls) = 2
    /\ pgLog[1].req.NextMarker = "m2"
    /\ pgLog[3].req.NextMarker = "m3"
====
